---------------------------- MODULE Spec2Model ----------------------------
(***************************************************************************)
(* Configuration validation, profile switching and persistence of the      *)
(* flight controller (src/main/fc/config.c).                               *)
(*                                                                         *)
(* The configuration in RAM, the persisted image and the runtime           *)
(* selections are the state.  Every function of config.c is a sequence of  *)
(* calls; `pc` holds the calls still to be made by the running top-level   *)
(* function, and one action executes the call at its head.                 *)
(***************************************************************************)
EXTENDS Integers, Sequences, FiniteSets, TLC

VARIABLES
    build,              \* compile-time switches of the firmware build (fixed)
    cfg,                \* the non-profile configuration groups in RAM
    systemConfig,       \* current_profile_index, current_battery_profile_index
    profiles,           \* the profile-indexed groups in RAM, one value per slot
    activeProfile,      \* slot selected by pgActivateProfile
    controlRateProfile, \* slot selected by setControlRateProfile
    batteryProfile,     \* slot selected by setBatteryProfile
    image,              \* the persisted image
    storeReadable,      \* whether the store answers the next loadEEPROM
    rxSuspended,        \* rx signal intake suspended
    armingDisabledInvalidSetting, \* ARMING_DISABLED_INVALID_SETTING
    failed,             \* failureMode(FAILURE_INVALID_EEPROM_CONTENTS) entered
    booted,             \* "unloaded" | "checked" | "active"
    pc,                 \* calls still to be made by the running function
    log,                \* calls made by the running (or last) function
    handler,            \* the running (or last) top-level function and argument
    before,             \* cfg as it was when validateAndFixConfig started in this call
    entry,              \* cfg, systemConfig, profiles, image and arming flag when the call was made
    edits,              \* number of changes made from outside so far (bounded)
    target,             \* compile-time switches of fc_msp_box.c (fixed)
    context,            \* sensors, state flags, features and settings the box list is built from
    runtime,            \* flight mode flags, active rc modes, armed flag
    activeBoxIds,       \* the active-box list
    activeBoxIdCount,   \* number of filled entries of activeBoxIds
    dst,                \* the destination buffer of a serialization
    mspBoxModeFlags     \* the bits set by packBoxModeFlags

vars == <<build, cfg, systemConfig, profiles, activeProfile, controlRateProfile,
          batteryProfile, image, storeReadable, rxSuspended,
          armingDisabledInvalidSetting, failed, booted, pc, log, handler,
          before, entry, edits, target, context, runtime, activeBoxIds,
          activeBoxIdCount, dst, mspBoxModeFlags>>

\* the state of fc_msp_box.c
boxVars == <<target, context, runtime, activeBoxIds, activeBoxIdCount, dst,
             mspBoxModeFlags>>

\* the state of config.c
configVars == <<build, cfg, systemConfig, profiles, activeProfile,
                controlRateProfile, batteryProfile, image, storeReadable,
                rxSuspended, armingDisabledInvalidSetting, failed, booted>>

-----------------------------------------------------------------------------
(* Bounds of the model *)

\* edits that a run of the persistence cycle may make to RAM
MaxEdits == 1
\* edits of single settings that an exploration of the validator may make
MaxSettingEdits == 2
\* largest value of the abstract per-profile tuning value
MaxTune == 1

-----------------------------------------------------------------------------
(* Program constants *)

MAX_PROFILE_COUNT == 3
MAX_BATTERY_PROFILE_COUNT == 3

PWM_TYPE_STANDARD == 0
PWM_TYPE_ONESHOT125 == 1
PWM_TYPE_MULTISHOT == 2
PWM_TYPE_BRUSHED == 3
PWM_TYPE_DSHOT150 == 4
PWM_TYPE_DSHOT300 == 5
PWM_TYPE_DSHOT600 == 6

\* the margin subtracted from land_slowdown_maxalt
LAND_SLOWDOWN_MARGIN == 100

\* width of the uint16_t fields
UINT16_MODULUS == 65536

ToUint16(x) == x % UINT16_MODULUS

MIN(a, b) == IF a < b THEN a ELSE b

constrain(amt, low, high) ==
    IF amt < low THEN low ELSE IF amt > high THEN high ELSE amt

-----------------------------------------------------------------------------
(* The firmware builds: each switch is an #ifdef of validateAndFixConfig *)

Builds ==
    [ USE_DSHOT : BOOLEAN,
      BRUSHED_MOTORS : BOOLEAN,
      USE_SERVO_SBUS : BOOLEAN,
      USE_MAG : BOOLEAN,
      \* USE_LED_STRIP with a soft serial port whose rx pin shares the
      \* timer of the led strip pin (sameTimerUsed)
      LED_SHARES_SOFTSERIAL_TIMER : BOOLEAN ]

\* the feature bits the validator reads or clears
FEATURE_UNUSED == {"UNUSED_1", "UNUSED_3"}
FeatureBits == FEATURE_UNUSED \cup {"SOFTSERIAL", "LED_STRIP", "AIRMODE"}

featureClear(features, mask) == features \ mask

featureSet(features, mask) == features \cup mask

-----------------------------------------------------------------------------
(* The Config Validator: validateAndFixConfig, one operator per rule *)

\* acc_notch_hz is switched off when the cutoff is not below it
fixAccNotch(c) ==
    IF c.acc_notch_cutoff >= c.acc_notch_hz
    THEN [c EXCEPT !.acc_notch_hz = 0]
    ELSE c

\* the unused feature bits are cleared; the led strip gives way to a soft
\* serial port that needs the same timer
fixFeatures(c, b) ==
    LET cleared == featureClear(c.enabledFeatures, FEATURE_UNUSED)
    IN  [c EXCEPT !.enabledFeatures =
            IF /\ b.LED_SHARES_SOFTSERIAL_TIMER
               /\ "SOFTSERIAL" \in cleared
               /\ "LED_STRIP" \in cleared
            THEN featureClear(cleared, {"LED_STRIP"})
            ELSE cleared]

fixServoProtocol(c, b) ==
    IF ~b.USE_SERVO_SBUS /\ c.servo_protocol \in {"SERVO_TYPE_SBUS", "SERVO_TYPE_SBUS_PWM"}
    THEN [c EXCEPT !.servo_protocol = "SERVO_TYPE_PWM"]
    ELSE c

isSerialConfigValid(serialConfig) == serialConfig # "invalid"

fixSerialConfig(c) ==
    IF ~isSerialConfigValid(c.serialConfig)
    THEN [c EXCEPT !.serialConfig = "default"]
    ELSE c

\* a plausible slip: the result is stored in the upper threshold
validateNavConfig_StoresInMaxalt(c) ==
    [c EXCEPT !.land_slowdown_maxalt =
        ToUint16(MIN(c.land_slowdown_minalt,
                     c.land_slowdown_maxalt - LAND_SLOWDOWN_MARGIN))]

\* MIN compares the promoted (signed) operands; the result is stored in the
\* uint16_t field
validateNavConfig(c) ==
    [c EXCEPT !.land_slowdown_minalt =
        ToUint16(MIN(c.land_slowdown_minalt,
                     c.land_slowdown_maxalt - LAND_SLOWDOWN_MARGIN))]

fixMotorProtocol(c, b) ==
    IF ~b.USE_DSHOT /\ c.motorPwmProtocol > PWM_TYPE_BRUSHED
    THEN [c EXCEPT !.motorPwmProtocol = PWM_TYPE_MULTISHOT]
    ELSE c

\* a plausible slip: the bands are clamped at their upper end only
motorPwmRateLimit_NoLowerBound(protocol, rate, b) ==
    IF b.BRUSHED_MOTORS THEN MIN(rate, 32000)
    ELSE CASE protocol = PWM_TYPE_ONESHOT125 -> MIN(rate, 3900)
           [] protocol = PWM_TYPE_MULTISHOT -> MIN(rate, 16000)
           [] protocol = PWM_TYPE_BRUSHED -> MIN(rate, 32000)
           [] b.USE_DSHOT /\ protocol = PWM_TYPE_DSHOT150 -> MIN(rate, 4000)
           [] b.USE_DSHOT /\ protocol = PWM_TYPE_DSHOT300 -> MIN(rate, 8000)
           [] b.USE_DSHOT /\ protocol = PWM_TYPE_DSHOT600 -> MIN(rate, 16000)
           [] OTHER -> MIN(rate, 490)

motorPwmRateLimit(protocol, rate, b) ==
    IF b.BRUSHED_MOTORS THEN constrain(rate, 500, 32000)
    ELSE CASE protocol = PWM_TYPE_ONESHOT125 -> MIN(rate, 3900)
           [] protocol = PWM_TYPE_MULTISHOT -> constrain(rate, 2000, 16000)
           [] protocol = PWM_TYPE_BRUSHED -> constrain(rate, 500, 32000)
           [] b.USE_DSHOT /\ protocol = PWM_TYPE_DSHOT150 -> MIN(rate, 4000)
           [] b.USE_DSHOT /\ protocol = PWM_TYPE_DSHOT300 -> MIN(rate, 8000)
           [] b.USE_DSHOT /\ protocol = PWM_TYPE_DSHOT600 -> MIN(rate, 16000)
           \* default: and PWM_TYPE_STANDARD
           [] OTHER -> MIN(rate, 490)

fixMotorPwmRate(c, b) ==
    [c EXCEPT !.motorPwmRate = motorPwmRateLimit(c.motorPwmProtocol, c.motorPwmRate, b)]

\* the weak stub of the target-specific validation
validateAndFixTargetConfig(c) == c

fixMagAlign(c, b) ==
    IF b.USE_MAG /\ c.mag_align = "ALIGN_DEFAULT"
    THEN [c EXCEPT !.mag_align = "CW270_DEG_FLIP"]
    ELSE c

\* the global settings-consistency check: every setting inside its range
settingsValidate(c) == c.settingsInRange

\* the configuration that validateAndFixConfig leaves in RAM
validateAndFixConfig_cfg(c, b) ==
    fixMagAlign(
      validateAndFixTargetConfig(
        fixMotorPwmRate(
          fixMotorProtocol(
            validateNavConfig(
              fixSerialConfig(
                fixServoProtocol(
                  fixFeatures(
                    fixAccNotch(c), b), b))), b), b)), b)

\* a plausible slip: the flag is set on failure and never cleared
validateAndFixConfig_flag_NeverCleared(c, b) ==
    armingDisabledInvalidSetting \/ ~settingsValidate(validateAndFixConfig_cfg(c, b))

\* the arming flag that validateAndFixConfig leaves
validateAndFixConfig_flag(c, b) == ~settingsValidate(validateAndFixConfig_cfg(c, b))

-----------------------------------------------------------------------------
(* Defaults: the reset templates and createDefaultConfig *)

ProfileSlots == 0 .. (MAX_PROFILE_COUNT - 1)

\* the reset templates of the groups the validator reads
ResetTemplateCfg ==
    [ acc_notch_cutoff |-> 1,
      acc_notch_hz |-> 0,
      enabledFeatures |-> {},
      servo_protocol |-> "SERVO_TYPE_PWM",
      serialConfig |-> "default",
      land_slowdown_minalt |-> 500,
      land_slowdown_maxalt |-> 2000,
      motorPwmProtocol |-> PWM_TYPE_ONESHOT125,
      motorPwmRate |-> 400,
      mag_align |-> "ALIGN_DEFAULT",
      gyro_zero_cal |-> [ X |-> 0, Y |-> 0, Z |-> 0 ],
      gravity_cmss_cal |-> 0,
      settingsInRange |-> TRUE ]

\* PG_RESET_TEMPLATE(systemConfig_t, systemConfig, ...)
ResetTemplateSystemConfig ==
    [ current_profile_index |-> 0, current_battery_profile_index |-> 0 ]

ResetTemplateProfiles == [p \in ProfileSlots |-> 0]

-----------------------------------------------------------------------------
(* The state as one record, so that a function can be run on any state *)

S ==
    [ build |-> build, cfg |-> cfg, systemConfig |-> systemConfig,
      profiles |-> profiles, activeProfile |-> activeProfile,
      controlRateProfile |-> controlRateProfile,
      batteryProfile |-> batteryProfile, image |-> image,
      storeReadable |-> storeReadable, rxSuspended |-> rxSuspended,
      armingDisabledInvalidSetting |-> armingDisabledInvalidSetting,
      failed |-> failed, booted |-> booted, pc |-> pc, log |-> log,
      handler |-> handler, before |-> before, entry |-> entry,
      edits |-> edits ]

Install(n) ==
    /\ build' = n.build
    /\ cfg' = n.cfg
    /\ systemConfig' = n.systemConfig
    /\ profiles' = n.profiles
    /\ activeProfile' = n.activeProfile
    /\ controlRateProfile' = n.controlRateProfile
    /\ batteryProfile' = n.batteryProfile
    /\ image' = n.image
    /\ storeReadable' = n.storeReadable
    /\ rxSuspended' = n.rxSuspended
    /\ armingDisabledInvalidSetting' = n.armingDisabledInvalidSetting
    /\ failed' = n.failed
    /\ booted' = n.booted
    /\ pc' = n.pc
    /\ log' = n.log
    /\ handler' = n.handler
    /\ before' = n.before
    /\ entry' = n.entry
    /\ edits' = n.edits
    /\ UNCHANGED boxVars

-----------------------------------------------------------------------------
(* The functions of config.c as sequences of calls *)

\* argument of setConfigProfile(getConfigProfile()) and of
\* setConfigBatteryProfile(getConfigBatteryProfile())
CURRENT == -1

Op(name, arg) ==
    [ op |-> name, arg |-> arg, onTrue |-> <<>>, onFalse |-> <<>>, done |-> {} ]

\* a call whose result decides what runs next
Branch(name, arg, thenOps, elseOps) ==
    [ op |-> name, arg |-> arg, onTrue |-> thenOps, onFalse |-> elseOps, done |-> {} ]

\* the body of function fn: fn has returned when its last call has been made
\* (a call without a body of its own has returned when it has been made)
Frame(fn, ops) ==
    [i \in 1 .. Len(ops) |->
        IF i = Len(ops) THEN [ops[i] EXCEPT !.done = @ \cup {fn}] ELSE ops[i]]

\* the dependent subsystems, in the order activateConfig calls them
ActivationOps ==
    << "activateControlRateConfig", "activateBatteryProfile",
       "resetAdjustmentStates", "updateUsedModeActivationConditionFlags",
       "failsafeReset", "accSetCalibrationValues", "accInitFilters",
       "imuConfigure", "pidInit", "navigationUsePIDs" >>

\* a plausible slip: the PID controllers are initialised before the
\* accelerometer and the IMU are configured
activateConfig_body_PidFirst ==
    Frame("activateConfig",
        [i \in 1 .. Len(ActivationOps) |->
            Op(<< "activateControlRateConfig", "activateBatteryProfile",
                  "resetAdjustmentStates", "updateUsedModeActivationConditionFlags",
                  "failsafeReset", "pidInit", "accSetCalibrationValues",
                  "accInitFilters", "imuConfigure", "navigationUsePIDs" >>[i], 0)])

\* the body of activateConfig
activateConfig_body ==
    Frame("activateConfig",
        [i \in 1 .. Len(ActivationOps) |-> Op(ActivationOps[i], 0)])

\* the call of activateConfig: control goes to its body
activateConfig_ops == << Branch("activateConfig", 0, activateConfig_body, <<>>) >>

\* a plausible slip: the result of loadEEPROM is not looked at
readEEPROM_ops_IgnoresLoadFailure ==
    Frame("readEEPROM",
        << Op("suspendRxSignal", 0),
           Op("loadEEPROM", 0),
           Op("setConfigProfile", CURRENT),
           Op("setConfigBatteryProfile", CURRENT),
           Op("validateAndFixConfig", 0) >>
        \o activateConfig_ops
        \o << Op("resumeRxSignal", 0) >>)

readEEPROM_ops ==
    Frame("readEEPROM",
        << Op("suspendRxSignal", 0),
           Branch("loadEEPROM", 0, <<>>, << Op("failureMode", 0) >>) >>
        \o << Op("setConfigProfile", CURRENT),
              Op("setConfigBatteryProfile", CURRENT),
              Op("validateAndFixConfig", 0) >>
        \o activateConfig_ops
        \o << Op("resumeRxSignal", 0) >>)

\* a plausible slip: the write is not bracketed by a suspension
writeEEPROM_ops_NoSuspend ==
    Frame("writeEEPROM", << Op("writeConfigToEEPROM", 0) >>)

\* a plausible slip: intake stays suspended after the write
writeEEPROM_ops_NoResume ==
    Frame("writeEEPROM",
        << Op("suspendRxSignal", 0),
           Op("writeConfigToEEPROM", 0) >>)

writeEEPROM_ops ==
    Frame("writeEEPROM",
        << Op("suspendRxSignal", 0),
           Op("writeConfigToEEPROM", 0),
           Op("resumeRxSignal", 0) >>)

resetConfigs_ops ==
    Frame("resetConfigs",
        << Op("pgResetAll", MAX_PROFILE_COUNT),
           Op("pgActivateProfile", 0),
           Op("createDefaultConfig", 0),
           Op("setConfigProfile", CURRENT) >>)

resetEEPROM_ops == Frame("resetEEPROM", resetConfigs_ops \o writeEEPROM_ops)

\* a plausible slip: the test of the image is inverted
ensureEEPROMContainsValidData_ops_Inverted ==
    << Branch("isEEPROMContentValid", 0, resetEEPROM_ops, <<>>) >>

ensureEEPROMContainsValidData_ops ==
    << Branch("isEEPROMContentValid", 0, <<>>, resetEEPROM_ops) >>

saveConfigAndNotify_ops ==
    Frame("saveConfigAndNotify",
        writeEEPROM_ops \o readEEPROM_ops \o << Op("beeperConfirmationBeeps", 1) >>)

\* a plausible slip: the reload comes before the write
setConfigProfileAndWriteEEPROM_ops_ReadsBeforeWrite(profileIndex) ==
    Frame("setConfigProfileAndWriteEEPROM",
        << Branch("setConfigProfile", profileIndex,
                  readEEPROM_ops \o writeEEPROM_ops, <<>>),
           Op("beeperConfirmationBeeps", profileIndex + 1) >>)

setConfigProfileAndWriteEEPROM_ops(profileIndex) ==
    Frame("setConfigProfileAndWriteEEPROM",
        << Branch("setConfigProfile", profileIndex,
                  writeEEPROM_ops \o readEEPROM_ops, <<>>),
           Op("beeperConfirmationBeeps", profileIndex + 1) >>)

setConfigBatteryProfileAndWriteEEPROM_ops(profileIndex) ==
    Frame("setConfigBatteryProfileAndWriteEEPROM",
        << Branch("setConfigBatteryProfile", profileIndex,
                  writeEEPROM_ops \o readEEPROM_ops, <<>>),
           Op("beeperConfirmationBeeps", profileIndex + 1) >>)

\* the stores to gyro_zero_cal[X], [Y] and [Z], then the save
setGyroCalibrationAndWriteEEPROM_ops(getGyroZero) ==
    Frame("setGyroCalibrationAndWriteEEPROM",
        << Op("gyro_zero_cal_X", getGyroZero.X),
           Op("gyro_zero_cal_Y", getGyroZero.Y),
           Op("gyro_zero_cal_Z", getGyroZero.Z) >>
        \o writeEEPROM_ops \o readEEPROM_ops)

setGravityCalibrationAndWriteEEPROM_ops(getGravity) ==
    Frame("setGravityCalibrationAndWriteEEPROM",
        << Op("gravity_cmss_cal", getGravity) >>
        \o writeEEPROM_ops \o readEEPROM_ops)

-----------------------------------------------------------------------------
(* What each call does to the state *)

suspendRxSignal(s) == [s EXCEPT !.rxSuspended = TRUE]

resumeRxSignal(s) == [s EXCEPT !.rxSuspended = FALSE]

\* every group of every profile slot is serialized and the image is valid
writeConfigToEEPROM(s) ==
    [s EXCEPT !.image =
        [ valid |-> TRUE, cfg |-> s.cfg, systemConfig |-> s.systemConfig,
          profiles |-> s.profiles ]]

\* every group of every profile slot is read back from the image; an
\* unreadable store leaves RAM as it is and reports the failure
loadEEPROM(s) ==
    IF s.storeReadable
    THEN [s EXCEPT !.cfg = s.image.cfg,
                   !.systemConfig = s.image.systemConfig,
                   !.profiles = s.image.profiles]
    ELSE s

\* the device stops in the failure indication: nothing is left to run
failureMode(s) == [s EXCEPT !.failed = TRUE, !.pc = <<>>]

getConfigProfile(s) == s.systemConfig.current_profile_index

getConfigBatteryProfile(s) == s.systemConfig.current_battery_profile_index

\* a plausible slip: ret is never cleared
setConfigProfile_ret_AlwaysTrue(s, profileIndex) == TRUE

\* the value returned by setConfigProfile
setConfigProfile_ret(s, profileIndex) ==
    ~(s.systemConfig.current_profile_index = profileIndex)

\* a plausible slip: the sanity check of the index is missing
setConfigProfile_NoClamp(s, profileIndex) ==
    [s EXCEPT !.activeProfile = profileIndex,
              !.systemConfig.current_profile_index = profileIndex,
              !.controlRateProfile = profileIndex]

setConfigProfile(s, profileIndex) ==
    LET index == IF profileIndex >= MAX_PROFILE_COUNT THEN 0 ELSE profileIndex
    IN  [s EXCEPT !.activeProfile = index,
                  !.systemConfig.current_profile_index = index,
                  !.controlRateProfile = index]

\* the value returned by setConfigBatteryProfile
setConfigBatteryProfile_ret(s, profileIndex) ==
    ~(s.systemConfig.current_battery_profile_index = profileIndex)

setConfigBatteryProfile(s, profileIndex) ==
    LET index == IF profileIndex >= MAX_BATTERY_PROFILE_COUNT THEN 0 ELSE profileIndex
    IN  [s EXCEPT !.systemConfig.current_battery_profile_index = index,
                  !.batteryProfile = index]

validateAndFixConfig(s) ==
    [s EXCEPT !.before = s.cfg,
              !.cfg = validateAndFixConfig_cfg(s.cfg, s.build),
              !.armingDisabledInvalidSetting = validateAndFixConfig_flag(s.cfg, s.build)]

pgResetAll(s) ==
    [s EXCEPT !.cfg = ResetTemplateCfg,
              !.systemConfig = ResetTemplateSystemConfig,
              !.profiles = ResetTemplateProfiles]

pgActivateProfile(s, profileIndex) == [s EXCEPT !.activeProfile = profileIndex]

createDefaultConfig(s) ==
    [s EXCEPT !.cfg.enabledFeatures = featureSet(@, {"AIRMODE"})]

\* the argument a call is made with
ArgOf(s, o) ==
    IF o.arg # CURRENT THEN o.arg
    ELSE IF o.op = "setConfigBatteryProfile" THEN getConfigBatteryProfile(s)
    ELSE getConfigProfile(s)

\* the value the call at the head of pc returns (TRUE for a void function)
Result(s) ==
    LET o == Head(s.pc)
    IN  CASE o.op = "loadEEPROM" -> s.storeReadable
          [] o.op = "isEEPROMContentValid" -> s.image.valid
          [] o.op = "setConfigProfile" -> setConfigProfile_ret(s, ArgOf(s, o))
          [] o.op = "setConfigBatteryProfile" -> setConfigBatteryProfile_ret(s, ArgOf(s, o))
          [] OTHER -> TRUE

\* the state the call at the head of pc leaves, pc and log apart
Effect(s) ==
    LET o == Head(s.pc)
    IN  CASE o.op = "suspendRxSignal" -> suspendRxSignal(s)
          [] o.op = "resumeRxSignal" -> resumeRxSignal(s)
          [] o.op = "writeConfigToEEPROM" -> writeConfigToEEPROM(s)
          [] o.op = "loadEEPROM" -> loadEEPROM(s)
          [] o.op = "setConfigProfile" -> setConfigProfile(s, ArgOf(s, o))
          [] o.op = "setConfigBatteryProfile" -> setConfigBatteryProfile(s, ArgOf(s, o))
          [] o.op = "validateAndFixConfig" -> validateAndFixConfig(s)
          [] o.op = "pgResetAll" -> pgResetAll(s)
          [] o.op = "pgActivateProfile" -> pgActivateProfile(s, o.arg)
          [] o.op = "createDefaultConfig" -> createDefaultConfig(s)
          [] o.op = "gyro_zero_cal_X" -> [s EXCEPT !.cfg.gyro_zero_cal.X = o.arg]
          [] o.op = "gyro_zero_cal_Y" -> [s EXCEPT !.cfg.gyro_zero_cal.Y = o.arg]
          [] o.op = "gyro_zero_cal_Z" -> [s EXCEPT !.cfg.gyro_zero_cal.Z = o.arg]
          [] o.op = "gravity_cmss_cal" -> [s EXCEPT !.cfg.gravity_cmss_cal = o.arg]
          [] OTHER -> s

\* one call: its effect, the call logged with its argument and result, and
\* pc moved on to what the result selects
Exec(s) ==
    LET o == Head(s.pc)
        res == Result(s)
        made == [ op |-> o.op, arg |-> ArgOf(s, o), res |-> res,
                  done |-> o.done \cup (IF o.op = "activateConfig" THEN {} ELSE {o.op}) ]
        n == [Effect(s) EXCEPT !.log = Append(s.log, made)]
    IN  IF o.op = "failureMode"
        THEN failureMode(n)
        ELSE [n EXCEPT !.pc = (IF res THEN o.onTrue ELSE o.onFalse) \o Tail(s.pc)]

Running(s) == s.pc # <<>> /\ ~s.failed

NoHandler == [fn |-> "none", arg |-> 0]

RECURSIVE Run(_)
\* the running function run to its return (or to the failure mode)
Run(s) == IF Running(s) THEN Run(Exec(s)) ELSE s

\* a top-level call of function fn with argument arg and body ops
Call(s, fn, arg, ops) ==
    [s EXCEPT !.pc = ops, !.log = <<>>,
              !.handler = [fn |-> fn, arg |-> arg],
              !.entry = [ cfg |-> s.cfg, systemConfig |-> s.systemConfig,
                          profiles |-> s.profiles, image |-> s.image,
                          armingDisabledInvalidSetting |-> s.armingDisabledInvalidSetting ]]

-----------------------------------------------------------------------------
(* The mode boxes (src/main/fc/fc_msp_box.c): the catalog and what the     *)
(* active-box list is built from                                           *)

\* boxId_e: the mode ids, numbered from 0 in the order of the enumeration
boxId_e ==
    << "BOXARM", "BOXANGLE", "BOXHORIZON", "BOXNAVALTHOLD", "BOXHEADINGHOLD",
       "BOXHEADFREE", "BOXHEADADJ", "BOXCAMSTAB", "BOXNAVRTH", "BOXNAVPOSHOLD",
       "BOXMANUAL", "BOXBEEPERON", "BOXLEDLOW", "BOXLIGHTS", "BOXNAVLAUNCH",
       "BOXOSD", "BOXTELEMETRY", "BOXBLACKBOX", "BOXFAILSAFE", "BOXNAVWP",
       "BOXAIRMODE", "BOXHOMERESET", "BOXGCSNAV", "BOXKILLSWITCH", "BOXSURFACE",
       "BOXFLAPERON", "BOXTURNASSIST", "BOXAUTOTRIM", "BOXAUTOTUNE",
       "BOXCAMERA1", "BOXCAMERA2", "BOXCAMERA3", "BOXOSDALT1", "BOXOSDALT2",
       "BOXOSDALT3", "BOXNAVCOURSEHOLD", "BOXBRAKING", "BOXUSER1", "BOXUSER2",
       "BOXFPVANGLEMIX", "BOXLOITERDIRCHN", "BOXMSPRCOVERRIDE", "BOXPREARM",
       "BOXTURTLE", "BOXNAVCRUISE", "BOXAUTOLEVEL", "BOXPLANWPMISSION",
       "BOXSOARING" >>

\* the last enumerator: the number of mode ids
CHECKBOX_ITEM_COUNT == Len(boxId_e)

\* the values of the enumerators
boxId_e_value ==
    [ name \in { boxId_e[i] : i \in DOMAIN boxId_e } |->
        (CHOOSE i \in DOMAIN boxId_e : boxId_e[i] = name) - 1 ]

\* the value of enumerator name
Box(name) == boxId_e_value[name]

BOX_PERMANENT_ID_USER1 == 47
BOX_PERMANENT_ID_USER2 == 48

\* the width of the ids: uint8_t
UINT8_MAX == 255

\* a NULL boxName
NULL_NAME == "(null)"

box_t(boxId, boxName, permanentId) ==
    [ boxId |-> boxId, boxName |-> boxName, permanentId |-> permanentId ]

\* static const box_t boxes[CHECKBOX_ITEM_COUNT + 1]
boxes ==
    << box_t(Box("BOXARM"), "ARM", 0),
       box_t(Box("BOXANGLE"), "ANGLE", 1),
       box_t(Box("BOXHORIZON"), "HORIZON", 2),
       box_t(Box("BOXNAVALTHOLD"), "NAV ALTHOLD", 3),
       box_t(Box("BOXHEADINGHOLD"), "HEADING HOLD", 5),
       box_t(Box("BOXHEADFREE"), "HEADFREE", 6),
       box_t(Box("BOXHEADADJ"), "HEADADJ", 7),
       box_t(Box("BOXCAMSTAB"), "CAMSTAB", 8),
       box_t(Box("BOXNAVRTH"), "NAV RTH", 10),
       box_t(Box("BOXNAVPOSHOLD"), "NAV POSHOLD", 11),
       box_t(Box("BOXMANUAL"), "MANUAL", 12),
       box_t(Box("BOXBEEPERON"), "BEEPER", 13),
       box_t(Box("BOXLEDLOW"), "LEDS OFF", 15),
       box_t(Box("BOXLIGHTS"), "LIGHTS", 16),
       box_t(Box("BOXOSD"), "OSD OFF", 19),
       box_t(Box("BOXTELEMETRY"), "TELEMETRY", 20),
       box_t(Box("BOXAUTOTUNE"), "AUTO TUNE", 21),
       box_t(Box("BOXBLACKBOX"), "BLACKBOX", 26),
       box_t(Box("BOXFAILSAFE"), "FAILSAFE", 27),
       box_t(Box("BOXNAVWP"), "NAV WP", 28),
       box_t(Box("BOXAIRMODE"), "AIR MODE", 29),
       box_t(Box("BOXHOMERESET"), "HOME RESET", 30),
       box_t(Box("BOXGCSNAV"), "GCS NAV", 31),
       box_t(Box("BOXFPVANGLEMIX"), "FPV ANGLE MIX", 32),
       box_t(Box("BOXSURFACE"), "SURFACE", 33),
       box_t(Box("BOXFLAPERON"), "FLAPERON", 34),
       box_t(Box("BOXTURNASSIST"), "TURN ASSIST", 35),
       box_t(Box("BOXNAVLAUNCH"), "NAV LAUNCH", 36),
       box_t(Box("BOXAUTOTRIM"), "SERVO AUTOTRIM", 37),
       box_t(Box("BOXKILLSWITCH"), "KILLSWITCH", 38),
       box_t(Box("BOXCAMERA1"), "CAMERA CONTROL 1", 39),
       box_t(Box("BOXCAMERA2"), "CAMERA CONTROL 2", 40),
       box_t(Box("BOXCAMERA3"), "CAMERA CONTROL 3", 41),
       box_t(Box("BOXOSDALT1"), "OSD ALT 1", 42),
       box_t(Box("BOXOSDALT2"), "OSD ALT 2", 43),
       box_t(Box("BOXOSDALT3"), "OSD ALT 3", 44),
       box_t(Box("BOXNAVCOURSEHOLD"), "NAV COURSE HOLD", 45),
       box_t(Box("BOXBRAKING"), "MC BRAKING", 46),
       box_t(Box("BOXUSER1"), "USER1", BOX_PERMANENT_ID_USER1),
       box_t(Box("BOXUSER2"), "USER2", BOX_PERMANENT_ID_USER2),
       box_t(Box("BOXLOITERDIRCHN"), "LOITER CHANGE", 49),
       box_t(Box("BOXMSPRCOVERRIDE"), "MSP RC OVERRIDE", 50),
       box_t(Box("BOXPREARM"), "PREARM", 51),
       box_t(Box("BOXTURTLE"), "TURTLE", 52),
       box_t(Box("BOXNAVCRUISE"), "NAV CRUISE", 53),
       box_t(Box("BOXAUTOLEVEL"), "AUTO LEVEL", 54),
       box_t(Box("BOXPLANWPMISSION"), "WP PLANNER", 55),
       box_t(Box("BOXSOARING"), "SOARING", 56),
       box_t(CHECKBOX_ITEM_COUNT, NULL_NAME, UINT8_MAX) >>

\* the switches fc_msp_box.c is compiled with: USE_OSD counts as
\* OSD_LAYOUT_COUNT (0 without it), USE_MSP_RC_OVERRIDE stands for USE_RX_MSP
\* with USE_MSP_RC_OVERRIDE

\* a target with every switch on
FullTarget ==
    [ USE_GPS |-> TRUE, USE_MR_BRAKING_MODE |-> TRUE,
      USE_AUTOTUNE_FIXED_WING |-> TRUE, USE_LIGHTS |-> TRUE,
      USE_LED_STRIP |-> TRUE, USE_TELEMETRY |-> TRUE, USE_BLACKBOX |-> TRUE,
      USE_RCDEVICE |-> TRUE, USE_PINIOBOX |-> TRUE, OSD_LAYOUT_COUNT |-> 4,
      USE_MSP_RC_OVERRIDE |-> TRUE, USE_DSHOT |-> TRUE,
      USE_FLM_FLAPERON |-> TRUE ]

\* a target with every switch off
MinimalTarget ==
    [ USE_GPS |-> FALSE, USE_MR_BRAKING_MODE |-> FALSE,
      USE_AUTOTUNE_FIXED_WING |-> FALSE, USE_LIGHTS |-> FALSE,
      USE_LED_STRIP |-> FALSE, USE_TELEMETRY |-> FALSE, USE_BLACKBOX |-> FALSE,
      USE_RCDEVICE |-> FALSE, USE_PINIOBOX |-> FALSE, OSD_LAYOUT_COUNT |-> 0,
      USE_MSP_RC_OVERRIDE |-> FALSE, USE_DSHOT |-> FALSE,
      USE_FLM_FLAPERON |-> FALSE ]

\* a small target with GPS: no braking mode, two OSD layouts
GpsTarget ==
    [MinimalTarget EXCEPT !.USE_GPS = TRUE, !.USE_TELEMETRY = TRUE,
                          !.OSD_LAYOUT_COUNT = 2, !.USE_DSHOT = TRUE]

\* the targets the boxes are explored on
BoxTargets == {FullTarget, MinimalTarget, GpsTarget}

\* what initActiveBoxIds reads
SensorBits ==
    {"SENSOR_ACC", "SENSOR_MAG", "SENSOR_BARO", "SENSOR_RANGEFINDER", "SENSOR_OPFLOW"}

StateBits ==
    {"ALTITUDE_CONTROL", "MULTIROTOR", "AIRPLANE", "ROVER", "BOAT", "FLAPERON_AVAILABLE"}

BoxFeatureBits ==
    {"FEATURE_AIRMODE", "FEATURE_GPS", "FEATURE_FW_LAUNCH", "FEATURE_FW_AUTOTRIM",
     "FEATURE_LED_STRIP", "FEATURE_TELEMETRY", "FEATURE_BLACKBOX"}

PlatformTypes == {"PLATFORM_MULTIROTOR", "PLATFORM_AIRPLANE", "PLATFORM_ROVER"}

HwSensorStatus == {"HW_SENSOR_NONE", "HW_SENSOR_OK"}

\* a multirotor with no sensors installed and nothing enabled
BareMultirotor ==
    [ sensors |-> {},
      stateFlags |-> {"MULTIROTOR", "ALTITUDE_CONTROL"},
      features |-> {},
      use_gps_no_baro |-> FALSE,
      allow_dead_reckoning |-> FALSE,
      telemetry_switch |-> FALSE,
      hwCompassStatus |-> "HW_SENSOR_NONE",
      platformType |-> "PLATFORM_MULTIROTOR",
      motorProtocolDshot |-> FALSE ]

\* a multirotor with every sensor and GPS navigation
FullMultirotor ==
    [ sensors |-> SensorBits,
      stateFlags |-> {"MULTIROTOR", "ALTITUDE_CONTROL"},
      features |-> {"FEATURE_AIRMODE", "FEATURE_GPS", "FEATURE_LED_STRIP",
                    "FEATURE_TELEMETRY", "FEATURE_BLACKBOX"},
      use_gps_no_baro |-> FALSE,
      allow_dead_reckoning |-> TRUE,
      telemetry_switch |-> TRUE,
      hwCompassStatus |-> "HW_SENSOR_OK",
      platformType |-> "PLATFORM_MULTIROTOR",
      motorProtocolDshot |-> TRUE ]

\* an airplane with accelerometer, barometer and GPS
Airplane ==
    [ sensors |-> {"SENSOR_ACC", "SENSOR_BARO"},
      stateFlags |-> {"AIRPLANE", "ALTITUDE_CONTROL", "FLAPERON_AVAILABLE"},
      features |-> {"FEATURE_GPS"},
      use_gps_no_baro |-> FALSE,
      allow_dead_reckoning |-> FALSE,
      telemetry_switch |-> FALSE,
      hwCompassStatus |-> "HW_SENSOR_NONE",
      platformType |-> "PLATFORM_AIRPLANE",
      motorProtocolDshot |-> FALSE ]

\* a rover with accelerometer and GPS
Rover ==
    [ sensors |-> {"SENSOR_ACC"},
      stateFlags |-> {"ROVER"},
      features |-> {"FEATURE_GPS", "FEATURE_AIRMODE"},
      use_gps_no_baro |-> FALSE,
      allow_dead_reckoning |-> FALSE,
      telemetry_switch |-> FALSE,
      hwCompassStatus |-> "HW_SENSOR_OK",
      platformType |-> "PLATFORM_ROVER",
      motorProtocolDshot |-> FALSE ]

\* a multirotor with no sensors that takes its altitude from GPS
GpsOnlyMultirotor ==
    [BareMultirotor EXCEPT !.features = {"FEATURE_GPS"}, !.use_gps_no_baro = TRUE]

\* the contexts an exploration starts from
ContextPresets == {BareMultirotor, GpsOnlyMultirotor, FullMultirotor, Airplane, Rover}

\* the live flags packBoxModeFlags reads
FlightModeBits ==
    {"ANGLE_MODE", "HORIZON_MODE", "HEADING_MODE", "HEADFREE_MODE", "MANUAL_MODE",
     "FAILSAFE_MODE", "NAV_ALTHOLD_MODE", "NAV_POSHOLD_MODE",
     "NAV_COURSE_HOLD_MODE", "NAV_RTH_MODE", "NAV_WP_MODE", "FLAPERON",
     "TURN_ASSISTANT", "NAV_LAUNCH_MODE", "AUTO_TUNE"}

BoxIds == 0 .. (CHECKBOX_ITEM_COUNT - 1)

\* no mode active, disarmed
RuntimeAtRest ==
    [ flightModeFlags |-> {}, rcModeActive |-> {}, armed |-> FALSE,
      terrainFollowing |-> FALSE ]

\* every flight mode flag set, every rc mode active, armed
RuntimeAllActive ==
    [ flightModeFlags |-> FlightModeBits, rcModeActive |-> BoxIds,
      armed |-> TRUE, terrainFollowing |-> TRUE ]

\* static uint8_t activeBoxIds[CHECKBOX_ITEM_COUNT] before the first build
ZeroedActiveBoxIds == [i \in BoxIds |-> 0]

\* no destination buffer: no serialization is running
NoBuffer == [ free |-> 0, data |-> <<>>, past |-> <<>>, fault |-> FALSE ]

\* the box state while the configuration functions are explored
BoxesAtRest ==
    /\ target = FullTarget
    /\ context = BareMultirotor
    /\ runtime = RuntimeAtRest
    /\ activeBoxIds = ZeroedActiveBoxIds
    /\ activeBoxIdCount = 0
    /\ dst = NoBuffer
    /\ mspBoxModeFlags = {}

-----------------------------------------------------------------------------
(* The initial state: the device before boot *)

\* RAM before anything is loaded (zero-initialized storage)
ZeroedCfg ==
    [ acc_notch_cutoff |-> 0,
      acc_notch_hz |-> 0,
      enabledFeatures |-> {},
      servo_protocol |-> "SERVO_TYPE_PWM",
      serialConfig |-> "zeroed",
      land_slowdown_minalt |-> 0,
      land_slowdown_maxalt |-> 0,
      motorPwmProtocol |-> PWM_TYPE_STANDARD,
      motorPwmRate |-> 0,
      mag_align |-> "ALIGN_DEFAULT",
      gyro_zero_cal |-> [ X |-> 0, Y |-> 0, Z |-> 0 ],
      gravity_cmss_cal |-> 0,
      settingsInRange |-> FALSE ]

\* what is recorded about a call while no function is running
NoEntry ==
    [ cfg |-> ZeroedCfg, systemConfig |-> ResetTemplateSystemConfig,
      profiles |-> ResetTemplateProfiles,
      image |-> [ valid |-> FALSE, cfg |-> ZeroedCfg,
                  systemConfig |-> ResetTemplateSystemConfig,
                  profiles |-> ResetTemplateProfiles ],
      armingDisabledInvalidSetting |-> FALSE ]

\* a configuration saved by the same firmware with default settings
SavedDefaultCfg == [ResetTemplateCfg EXCEPT !.enabledFeatures = {"AIRMODE"}]

\* a configuration saved by another firmware version: values that are out
\* of range for this one
SavedForeignCfg ==
    [ acc_notch_cutoff |-> 2,
      acc_notch_hz |-> 1,
      enabledFeatures |-> {"UNUSED_1", "SOFTSERIAL", "LED_STRIP"},
      servo_protocol |-> "SERVO_TYPE_SBUS",
      serialConfig |-> "invalid",
      land_slowdown_minalt |-> 500,
      land_slowdown_maxalt |-> 550,
      motorPwmProtocol |-> PWM_TYPE_DSHOT600,
      motorPwmRate |-> 50000,
      mag_align |-> "ALIGN_DEFAULT",
      gyro_zero_cal |-> [ X |-> 0, Y |-> 0, Z |-> 0 ],
      gravity_cmss_cal |-> 0,
      settingsInRange |-> FALSE ]

\* the stored indices may be out of range for this firmware
StoredIndices ==
    { [ current_profile_index |-> p, current_battery_profile_index |-> q ] :
        <<p, q>> \in { <<0, 0>>, <<1, 2>>, <<2, 1>>,
                       <<MAX_PROFILE_COUNT, 1>>,
                       <<2, MAX_BATTERY_PROFILE_COUNT>>,
                       <<MAX_PROFILE_COUNT, MAX_BATTERY_PROFILE_COUNT>> } }

InitImages ==
    { [ valid |-> FALSE, cfg |-> ZeroedCfg,
        systemConfig |-> ResetTemplateSystemConfig,
        profiles |-> ResetTemplateProfiles ] }
    \cup
    [ valid : {TRUE},
      cfg : {SavedDefaultCfg, SavedForeignCfg},
      systemConfig : StoredIndices,
      profiles : {ResetTemplateProfiles} ]

\* the builds the persistence cycle is explored on: every switch off, and
\* every switch on but BRUSHED_MOTORS
BootBuilds ==
    { b \in Builds :
        /\ ~b.BRUSHED_MOTORS
        /\ b.USE_DSHOT = b.USE_SERVO_SBUS
        /\ b.USE_DSHOT = b.USE_MAG
        /\ b.USE_DSHOT = b.LED_SHARES_SOFTSERIAL_TIMER }

Init ==
    /\ build \in BootBuilds
    /\ cfg = ZeroedCfg
    /\ systemConfig = ResetTemplateSystemConfig
    /\ profiles = ResetTemplateProfiles
    /\ activeProfile = 0
    /\ controlRateProfile = 0
    /\ batteryProfile = 0
    /\ image \in InitImages
    /\ storeReadable = TRUE
    /\ rxSuspended = FALSE
    /\ armingDisabledInvalidSetting = FALSE
    /\ failed = FALSE
    /\ booted = "unloaded"
    /\ pc = <<>>
    /\ log = <<>>
    /\ handler = NoHandler
    /\ before = ZeroedCfg
    /\ entry = NoEntry
    /\ edits = 0
    /\ BoxesAtRest

-----------------------------------------------------------------------------
(* Top-level calls: one function runs at a time *)

\* no function is running and the last one has returned to the main loop
Idle == pc = <<>> /\ ~failed /\ handler.fn = "none"

\* the running function has just returned
Returned(fn) == pc = <<>> /\ ~failed /\ handler.fn = fn

\* boot: ensureEEPROMContainsValidData, then readEEPROM, then anything
ensureEEPROMContainsValidData ==
    /\ Idle
    /\ booted \in {"unloaded", "active"}
    /\ Install([Call(S, "ensureEEPROMContainsValidData", 0,
                     ensureEEPROMContainsValidData_ops)
                EXCEPT !.booted = IF booted = "unloaded" THEN "checked" ELSE booted])

readEEPROM ==
    /\ Idle
    /\ booted \in {"checked", "active"}
    /\ Install([Call(S, "readEEPROM", 0, readEEPROM_ops) EXCEPT !.booted = "active"])

writeEEPROM ==
    /\ Idle
    /\ booted = "active"
    /\ Install(Call(S, "writeEEPROM", 0, writeEEPROM_ops))

resetEEPROM ==
    /\ Idle
    /\ booted = "active"
    /\ Install(Call(S, "resetEEPROM", 0, resetEEPROM_ops))

saveConfigAndNotify ==
    /\ Idle
    /\ booted = "active"
    /\ Install(Call(S, "saveConfigAndNotify", 0, saveConfigAndNotify_ops))

\* the profile indices a caller may ask for: the valid ones and one too large
RequestedIndices == 0 .. MAX_PROFILE_COUNT

setConfigProfileAndWriteEEPROM ==
    /\ Idle
    /\ booted = "active"
    /\ \E profileIndex \in RequestedIndices :
        Install(Call(S, "setConfigProfileAndWriteEEPROM", profileIndex,
                     setConfigProfileAndWriteEEPROM_ops(profileIndex)))

setConfigBatteryProfileAndWriteEEPROM ==
    /\ Idle
    /\ booted = "active"
    /\ \E profileIndex \in RequestedIndices :
        Install(Call(S, "setConfigBatteryProfileAndWriteEEPROM", profileIndex,
                     setConfigBatteryProfileAndWriteEEPROM_ops(profileIndex)))

\* the calibration results the sensors may hand over
GyroZeroValues == { [ X |-> 1, Y |-> 2, Z |-> 3 ] }

GravityValues == { 981 }

\* a calibration changes RAM: it counts as an edit
setGyroCalibrationAndWriteEEPROM ==
    /\ Idle
    /\ booted = "active"
    /\ edits < MaxEdits
    /\ \E getGyroZero \in GyroZeroValues :
        Install([Call(S, "setGyroCalibrationAndWriteEEPROM", getGyroZero,
                      setGyroCalibrationAndWriteEEPROM_ops(getGyroZero))
                 EXCEPT !.edits = edits + 1])

setGravityCalibrationAndWriteEEPROM ==
    /\ Idle
    /\ booted = "active"
    /\ edits < MaxEdits
    /\ \E getGravity \in GravityValues :
        Install([Call(S, "setGravityCalibrationAndWriteEEPROM", getGravity,
                      setGravityCalibrationAndWriteEEPROM_ops(getGravity))
                 EXCEPT !.edits = edits + 1])

-----------------------------------------------------------------------------
(* The calls made by the running function, one action each *)

DoSuspendRxSignal ==
    /\ Running(S)
    /\ Head(pc).op = "suspendRxSignal"
    /\ Install(Exec(S))

DoResumeRxSignal ==
    /\ Running(S)
    /\ Head(pc).op = "resumeRxSignal"
    /\ Install(Exec(S))

DoWriteConfigToEEPROM ==
    /\ Running(S)
    /\ Head(pc).op = "writeConfigToEEPROM"
    /\ Install(Exec(S))

DoLoadEEPROM ==
    /\ Running(S)
    /\ Head(pc).op = "loadEEPROM"
    /\ Install(Exec(S))

DoFailureMode ==
    /\ Running(S)
    /\ Head(pc).op = "failureMode"
    /\ Install(Exec(S))

DoSetConfigProfile ==
    /\ Running(S)
    /\ Head(pc).op = "setConfigProfile"
    /\ Install(Exec(S))

DoSetConfigBatteryProfile ==
    /\ Running(S)
    /\ Head(pc).op = "setConfigBatteryProfile"
    /\ Install(Exec(S))

DoValidateAndFixConfig ==
    /\ Running(S)
    /\ Head(pc).op = "validateAndFixConfig"
    /\ Install(Exec(S))

DoIsEEPROMContentValid ==
    /\ Running(S)
    /\ Head(pc).op = "isEEPROMContentValid"
    /\ Install(Exec(S))

DoPgResetAll ==
    /\ Running(S)
    /\ Head(pc).op = "pgResetAll"
    /\ Install(Exec(S))

DoPgActivateProfile ==
    /\ Running(S)
    /\ Head(pc).op = "pgActivateProfile"
    /\ Install(Exec(S))

DoCreateDefaultConfig ==
    /\ Running(S)
    /\ Head(pc).op = "createDefaultConfig"
    /\ Install(Exec(S))

DoBeeperConfirmationBeeps ==
    /\ Running(S)
    /\ Head(pc).op = "beeperConfirmationBeeps"
    /\ Install(Exec(S))

DoActivateConfig ==
    /\ Running(S)
    /\ Head(pc).op = "activateConfig"
    /\ Install(Exec(S))

\* one of the subsystem calls of activateConfig
DoActivateSubsystem ==
    /\ Running(S)
    /\ \E i \in DOMAIN ActivationOps : Head(pc).op = ActivationOps[i]
    /\ Install(Exec(S))

DoStoreGyroZeroCal ==
    /\ Running(S)
    /\ Head(pc).op \in {"gyro_zero_cal_X", "gyro_zero_cal_Y", "gyro_zero_cal_Z"}
    /\ Install(Exec(S))

DoStoreGravityCal ==
    /\ Running(S)
    /\ Head(pc).op = "gravity_cmss_cal"
    /\ Install(Exec(S))

\* the function has returned: control goes back to the main loop, and what
\* was recorded about the call is dropped
Return ==
    /\ pc = <<>>
    /\ ~failed
    /\ ~dst.fault
    /\ handler.fn # "none"
    /\ handler' = NoHandler
    /\ log' = <<>>
    /\ before' = ZeroedCfg
    /\ entry' = NoEntry
    /\ dst' = NoBuffer
    /\ mspBoxModeFlags' = {}
    /\ UNCHANGED <<build, cfg, systemConfig, profiles, activeProfile,
                   controlRateProfile, batteryProfile, image, storeReadable,
                   rxSuspended, armingDisabledInvalidSetting, failed, booted,
                   pc, edits, target, context, runtime, activeBoxIds,
                   activeBoxIdCount>>

-----------------------------------------------------------------------------
(* The environment: settings changed in RAM, and a failing store *)

\* the values a single edit may give a field of the configuration
FieldValues ==
    [ acc_notch_cutoff |-> {1, 2},
      acc_notch_hz |-> {0, 1, 2},
      enabledFeatures |-> { {"AIRMODE"}, {"AIRMODE", "UNUSED_3"},
                            {"SOFTSERIAL", "LED_STRIP"}, {"LED_STRIP"} },
      servo_protocol |-> {"SERVO_TYPE_PWM", "SERVO_TYPE_SBUS", "SERVO_TYPE_SBUS_PWM"},
      serialConfig |-> {"valid", "invalid"},
      land_slowdown_minalt |-> {0, 50, 450, 1000},
      land_slowdown_maxalt |-> {50, 100, 500, 4000},
      motorPwmProtocol |-> PWM_TYPE_STANDARD .. (PWM_TYPE_DSHOT600 + 1),
      motorPwmRate |-> {100, 490, 1000, 3900, 4000, 10000, 20000, 50000},
      mag_align |-> {"ALIGN_DEFAULT", "CW0_DEG"},
      settingsInRange |-> BOOLEAN ]

\* the settings changed while the persistence cycle is explored
RuntimeFieldValues ==
    [ motorPwmRate |-> {50000},
      settingsInRange |-> BOOLEAN ]

\* a setting is changed in RAM (the ...Mutable() accessors)
EditSetting ==
    /\ Idle
    /\ booted = "active"
    /\ edits < MaxEdits
    /\ \E f \in DOMAIN RuntimeFieldValues : \E v \in RuntimeFieldValues[f] :
        /\ cfg[f] # v
        /\ cfg' = [cfg EXCEPT ![f] = v]
    /\ edits' = edits + 1
    /\ UNCHANGED <<build, systemConfig, profiles, activeProfile,
                   controlRateProfile, batteryProfile, image, storeReadable,
                   rxSuspended, armingDisabledInvalidSetting, failed, booted,
                   pc, log, handler, before, entry, boxVars>>

\* a value of the active profile is changed in RAM
EditProfile ==
    /\ Idle
    /\ booted = "active"
    /\ edits < MaxEdits
    /\ \E v \in 0 .. MaxTune :
        /\ profiles[activeProfile] # v
        /\ profiles' = [profiles EXCEPT ![activeProfile] = v]
    /\ edits' = edits + 1
    /\ UNCHANGED <<build, cfg, systemConfig, activeProfile,
                   controlRateProfile, batteryProfile, image, storeReadable,
                   rxSuspended, armingDisabledInvalidSetting, failed, booted,
                   pc, log, handler, before, entry, boxVars>>

\* any setting the validator reads is changed in RAM
EditAnySetting ==
    /\ Idle
    /\ edits < MaxSettingEdits
    /\ \E f \in DOMAIN FieldValues : \E v \in FieldValues[f] :
        /\ cfg[f] # v
        /\ cfg' = [cfg EXCEPT ![f] = v]
    /\ edits' = edits + 1
    /\ UNCHANGED <<build, systemConfig, profiles, activeProfile,
                   controlRateProfile, batteryProfile, image, storeReadable,
                   rxSuspended, armingDisabledInvalidSetting, failed, booted,
                   pc, log, handler, before, entry, boxVars>>

\* the store stops answering
StoreFault ==
    /\ Idle
    /\ storeReadable
    /\ storeReadable' = FALSE
    /\ UNCHANGED <<build, cfg, systemConfig, profiles, activeProfile,
                   controlRateProfile, batteryProfile, image, rxSuspended,
                   armingDisabledInvalidSetting, failed, booted, pc, log,
                   handler, before, entry, edits, boxVars>>

-----------------------------------------------------------------------------

Next ==
    \/ ensureEEPROMContainsValidData
    \/ readEEPROM
    \/ writeEEPROM
    \/ resetEEPROM
    \/ saveConfigAndNotify
    \/ setConfigProfileAndWriteEEPROM
    \/ setConfigBatteryProfileAndWriteEEPROM
    \/ setGyroCalibrationAndWriteEEPROM
    \/ setGravityCalibrationAndWriteEEPROM
    \/ DoSuspendRxSignal
    \/ DoResumeRxSignal
    \/ DoWriteConfigToEEPROM
    \/ DoLoadEEPROM
    \/ DoFailureMode
    \/ DoSetConfigProfile
    \/ DoSetConfigBatteryProfile
    \/ DoValidateAndFixConfig
    \/ DoIsEEPROMContentValid
    \/ DoPgResetAll
    \/ DoPgActivateProfile
    \/ DoCreateDefaultConfig
    \/ DoBeeperConfirmationBeeps
    \/ DoActivateConfig
    \/ DoActivateSubsystem
    \/ DoStoreGyroZeroCal
    \/ DoStoreGravityCal
    \/ Return
    \/ EditSetting
    \/ EditProfile
    \/ StoreFault

Spec == Init /\ [][Next]_vars

-----------------------------------------------------------------------------
(* The validator on its own: any build, a loaded configuration, settings   *)
(* changed one at a time, and validateAndFixConfig called at any time      *)

validateAndFixConfigCall ==
    /\ Idle
    /\ Install(Call(S, "validateAndFixConfig", 0, << Op("validateAndFixConfig", 0) >>))

InitValidate ==
    /\ build \in Builds
    /\ cfg \in {SavedDefaultCfg, SavedForeignCfg}
    /\ systemConfig = ResetTemplateSystemConfig
    /\ profiles = ResetTemplateProfiles
    /\ activeProfile = 0
    /\ controlRateProfile = 0
    /\ batteryProfile = 0
    /\ image = [ valid |-> TRUE, cfg |-> cfg, systemConfig |-> systemConfig,
                 profiles |-> profiles ]
    /\ storeReadable = TRUE
    /\ rxSuspended = FALSE
    /\ armingDisabledInvalidSetting = FALSE
    /\ failed = FALSE
    /\ booted = "active"
    /\ pc = <<>>
    /\ log = <<>>
    /\ handler = NoHandler
    /\ before = ZeroedCfg
    /\ entry = NoEntry
    /\ edits = 0
    /\ BoxesAtRest

NextValidate ==
    \/ EditAnySetting
    \/ validateAndFixConfigCall
    \/ DoValidateAndFixConfig
    \/ Return

SpecValidate == InitValidate /\ [][NextValidate]_vars

-----------------------------------------------------------------------------
(* The mode boxes: lookups *)

\* the configuration side while the boxes are explored: loaded, active, idle
ConfigAtRest ==
    /\ build = CHOOSE b \in BootBuilds : b.USE_DSHOT
    /\ cfg = SavedDefaultCfg
    /\ systemConfig = ResetTemplateSystemConfig
    /\ profiles = ResetTemplateProfiles
    /\ activeProfile = 0
    /\ controlRateProfile = 0
    /\ batteryProfile = 0
    /\ image = [ valid |-> TRUE, cfg |-> cfg, systemConfig |-> systemConfig,
                 profiles |-> profiles ]
    /\ storeReadable = TRUE
    /\ rxSuspended = FALSE
    /\ armingDisabledInvalidSetting = FALSE
    /\ failed = FALSE
    /\ booted = "active"
    /\ pc = <<>>
    /\ log = <<>>
    /\ handler = NoHandler
    /\ before = ZeroedCfg
    /\ entry = NoEntry
    /\ edits = 0

\* a null pointer to a box_t
NULL == [ null |-> TRUE ]

\* the first of the sizeof(boxes) / sizeof(box_t) entries of boxes, sentinel
\* included, whose boxId is activeBoxId
findBoxByActiveBoxId(activeBoxId) ==
    LET hits == { boxIndex \in 0 .. (Len(boxes) - 1) :
                    boxes[boxIndex + 1].boxId = activeBoxId }
    IN  IF hits = {}
        THEN NULL
        ELSE boxes[(CHOOSE h \in hits : \A other \in hits : h <= other) + 1]

\* the first entry of boxes, sentinel included, whose permanentId is permenantId
findBoxByPermanentId(permenantId) ==
    LET hits == { boxIndex \in 0 .. (Len(boxes) - 1) :
                    boxes[boxIndex + 1].permanentId = permenantId }
    IN  IF hits = {}
        THEN NULL
        ELSE boxes[(CHOOSE h \in hits : \A other \in hits : h <= other) + 1]

\* findBoxByActiveBoxId for every value of its uint8_t argument
boxOfActiveBoxId ==
    [ activeBoxId \in 0 .. UINT8_MAX |-> findBoxByActiveBoxId(activeBoxId) ]

\* a function of fc_msp_box.c runs to its end: the call and its result are
\* recorded, the list it ran on is passed in arg
BoxCall(fn, arg, res) ==
    /\ handler' = [fn |-> fn, arg |-> arg]
    /\ log' = << [op |-> fn, arg |-> arg, res |-> res, done |-> {fn}] >>
    /\ UNCHANGED <<configVars, pc, before, entry, edits, target, context, runtime>>

findBoxByActiveBoxIdCall ==
    /\ Idle
    /\ \E activeBoxId \in 0 .. UINT8_MAX :
         BoxCall("findBoxByActiveBoxId", activeBoxId,
                 findBoxByActiveBoxId(activeBoxId))
    /\ UNCHANGED <<activeBoxIds, activeBoxIdCount, dst, mspBoxModeFlags>>

findBoxByPermanentIdCall ==
    /\ Idle
    /\ \E permenantId \in 0 .. UINT8_MAX :
         BoxCall("findBoxByPermanentId", permenantId,
                 findBoxByPermanentId(permenantId))
    /\ UNCHANGED <<activeBoxIds, activeBoxIdCount, dst, mspBoxModeFlags>>

InitFind ==
    /\ ConfigAtRest
    /\ BoxesAtRest

NextFind ==
    \/ findBoxByActiveBoxIdCall
    \/ findBoxByPermanentIdCall
    \/ Return

\* the two lookups, called with every id
SpecFind == InitFind /\ [][NextFind]_vars

-----------------------------------------------------------------------------
(* The mode boxes: building the active-box list *)

\* the active-box list as one value
ActiveList == [ activeBoxIds |-> activeBoxIds, activeBoxIdCount |-> activeBoxIdCount ]

\* memset(activeBoxIds, 0xFF, sizeof(activeBoxIds))
memset_activeBoxIds(l) ==
    [l EXCEPT !.activeBoxIds = [i \in DOMAIN l.activeBoxIds |-> UINT8_MAX]]

\* activeBoxIdCount = 0
RESET_BOX_ID_COUNT(l) == [l EXCEPT !.activeBoxIdCount = 0]

\* ADD_ACTIVE_BOX that stores the boxes of added last one first
ADD_ACTIVE_BOX_LastFirst(l, added) ==
    [ activeBoxIds |->
        [ i \in DOMAIN l.activeBoxIds |->
            IF l.activeBoxIdCount <= i /\ i < l.activeBoxIdCount + Len(added)
            THEN Box(added[Len(added) - (i - l.activeBoxIdCount)])
            ELSE l.activeBoxIds[i] ],
      activeBoxIdCount |-> (l.activeBoxIdCount + Len(added)) % (UINT8_MAX + 1) ]

\* activeBoxIds[activeBoxIdCount++] = box, for each box of added in turn
ADD_ACTIVE_BOX(l, added) ==
    [ activeBoxIds |->
        [ i \in DOMAIN l.activeBoxIds |->
            IF l.activeBoxIdCount <= i /\ i < l.activeBoxIdCount + Len(added)
            THEN Box(added[i - l.activeBoxIdCount + 1])
            ELSE l.activeBoxIds[i] ],
      activeBoxIdCount |-> (l.activeBoxIdCount + Len(added)) % (UINT8_MAX + 1) ]

\* navReadyAltControl that is true on every target with USE_GPS
navReadyAltControl_GpsAlways(t, c) ==
    "SENSOR_BARO" \in c.sensors \/ t.USE_GPS

\* bool navReadyAltControl: the barometer, or with USE_GPS the GPS feature
\* on an airplane or with use_gps_no_baro
navReadyAltControl(t, c) ==
    \/ "SENSOR_BARO" \in c.sensors
    \/ /\ t.USE_GPS
       /\ "FEATURE_GPS" \in c.features
       /\ ("AIRPLANE" \in c.stateFlags \/ c.use_gps_no_baro)

\* bool navReadyPosControl: accelerometer and GPS feature, on a multirotor
\* also a compass
navReadyPosControl(t, c) ==
    /\ "SENSOR_ACC" \in c.sensors /\ "FEATURE_GPS" \in c.features
    /\ ("MULTIROTOR" \in c.stateFlags => c.hwCompassStatus # "HW_SENSOR_NONE")

\* the ADD_ACTIVE_BOX statements of initActiveBoxIds in the order of the
\* source, each with the condition under which target t in context c runs it
initActiveBoxIds_statements(t, c) ==
    LET sensors(mask) == mask \in c.sensors
        STATE_FLAG(mask) == mask \in c.stateFlags
        feature(mask) == mask \in c.features
        navFlowDeadReckoning ==
            sensors("SENSOR_OPFLOW") /\ sensors("SENSOR_ACC") /\ c.allow_dead_reckoning
        attitude == sensors("SENSOR_ACC") /\ STATE_FLAG("ALTITUDE_CONTROL")
        headfree == STATE_FLAG("MULTIROTOR") /\ (sensors("SENSOR_ACC") \/ sensors("SENSOR_MAG"))
        poshold ==
            /\ t.USE_GPS /\ STATE_FLAG("ALTITUDE_CONTROL") /\ navReadyAltControl(t, c)
            /\ (navReadyPosControl(t, c) \/ navFlowDeadReckoning)
        rth ==
            /\ t.USE_GPS /\ navReadyPosControl(t, c)
            /\ (~STATE_FLAG("ALTITUDE_CONTROL")
                  \/ (STATE_FLAG("ALTITUDE_CONTROL") /\ navReadyAltControl(t, c)))
        cruise == t.USE_GPS /\ navReadyPosControl(t, c) /\ STATE_FLAG("AIRPLANE")
    IN  << <<TRUE, "BOXARM">>,
           <<TRUE, "BOXPREARM">>,
           <<attitude, "BOXANGLE">>,
           <<attitude, "BOXHORIZON">>,
           <<attitude, "BOXTURNASSIST">>,
           <<~feature("FEATURE_AIRMODE") /\ STATE_FLAG("ALTITUDE_CONTROL"), "BOXAIRMODE">>,
           <<TRUE, "BOXHEADINGHOLD">>,
           <<TRUE, "BOXCAMSTAB">>,
           <<headfree, "BOXHEADFREE">>,
           <<headfree, "BOXHEADADJ">>,
           <<STATE_FLAG("MULTIROTOR") /\ sensors("SENSOR_BARO")
               /\ sensors("SENSOR_RANGEFINDER") /\ sensors("SENSOR_OPFLOW"), "BOXSURFACE">>,
           <<STATE_FLAG("MULTIROTOR"), "BOXFPVANGLEMIX">>,
           <<poshold, "BOXNAVPOSHOLD">>,
           <<poshold /\ STATE_FLAG("AIRPLANE"), "BOXLOITERDIRCHN">>,
           <<rth, "BOXNAVRTH">>,
           <<rth, "BOXNAVWP">>,
           <<rth, "BOXHOMERESET">>,
           <<rth, "BOXGCSNAV">>,
           <<rth, "BOXPLANWPMISSION">>,
           <<cruise, "BOXNAVCRUISE">>,
           <<cruise, "BOXNAVCOURSEHOLD">>,
           <<cruise, "BOXSOARING">>,
           <<t.USE_GPS /\ t.USE_MR_BRAKING_MODE
               /\ c.platformType = "PLATFORM_MULTIROTOR", "BOXBRAKING">>,
           <<STATE_FLAG("ALTITUDE_CONTROL") /\ navReadyAltControl(t, c), "BOXNAVALTHOLD">>,
           <<STATE_FLAG("AIRPLANE") \/ STATE_FLAG("ROVER") \/ STATE_FLAG("BOAT"), "BOXMANUAL">>,
           <<STATE_FLAG("AIRPLANE") /\ ~feature("FEATURE_FW_LAUNCH"), "BOXNAVLAUNCH">>,
           <<STATE_FLAG("AIRPLANE") /\ ~feature("FEATURE_FW_AUTOTRIM"), "BOXAUTOTRIM">>,
           <<STATE_FLAG("AIRPLANE") /\ t.USE_AUTOTUNE_FIXED_WING, "BOXAUTOTUNE">>,
           <<STATE_FLAG("AIRPLANE") /\ sensors("SENSOR_BARO"), "BOXAUTOLEVEL">>,
           <<STATE_FLAG("FLAPERON_AVAILABLE"), "BOXFLAPERON">>,
           <<TRUE, "BOXBEEPERON">>,
           <<t.USE_LIGHTS, "BOXLIGHTS">>,
           <<t.USE_LED_STRIP /\ feature("FEATURE_LED_STRIP"), "BOXLEDLOW">>,
           <<TRUE, "BOXOSD">>,
           <<t.USE_TELEMETRY /\ feature("FEATURE_TELEMETRY") /\ c.telemetry_switch,
             "BOXTELEMETRY">>,
           <<t.USE_BLACKBOX /\ feature("FEATURE_BLACKBOX"), "BOXBLACKBOX">>,
           <<TRUE, "BOXKILLSWITCH">>,
           <<TRUE, "BOXFAILSAFE">>,
           <<t.USE_RCDEVICE, "BOXCAMERA1">>,
           <<t.USE_RCDEVICE, "BOXCAMERA2">>,
           <<t.USE_RCDEVICE, "BOXCAMERA3">>,
           <<t.USE_PINIOBOX, "BOXUSER1">>,
           <<t.USE_PINIOBOX, "BOXUSER2">>,
           <<t.OSD_LAYOUT_COUNT > 0, "BOXOSDALT1">>,
           <<t.OSD_LAYOUT_COUNT > 1, "BOXOSDALT2">>,
           <<t.OSD_LAYOUT_COUNT > 2, "BOXOSDALT3">>,
           <<t.USE_MSP_RC_OVERRIDE, "BOXMSPRCOVERRIDE">>,
           <<t.USE_DSHOT /\ STATE_FLAG("MULTIROTOR") /\ c.motorProtocolDshot,
             "BOXTURTLE">> >>

\* initActiveBoxIds whose statements for HEADFREE and HEADADJ run once for the
\* multirotor and once more for the airplane
initActiveBoxIds_adds_HeadfreePerVehicle(t, c) ==
    LET runs(statement) == statement[1]
        run == SelectSeq(initActiveBoxIds_statements(t, c), runs)
    IN  [ i \in 1 .. Len(run) |-> run[i][2] ]
        \o (IF {"MULTIROTOR", "AIRPLANE"} \subseteq c.stateFlags
            THEN << "BOXHEADFREE", "BOXHEADADJ" >> ELSE <<>>)

\* the boxes of the statements that run, in order
initActiveBoxIds_adds(t, c) ==
    LET runs(statement) == statement[1]
        run == SelectSeq(initActiveBoxIds_statements(t, c), runs)
    IN  [ i \in 1 .. Len(run) |-> run[i][2] ]

\* initActiveBoxIds that leaves the array as it finds it before it fills it
initActiveBoxIds_NoMemset(l, t, c) ==
    ADD_ACTIVE_BOX(RESET_BOX_ID_COUNT(l), initActiveBoxIds_adds(t, c))

\* the list initActiveBoxIds leaves, run on list l, target t, context c
initActiveBoxIds(l, t, c) ==
    ADD_ACTIVE_BOX(RESET_BOX_ID_COUNT(memset_activeBoxIds(l)),
                   initActiveBoxIds_adds(t, c))

initActiveBoxIdsCall ==
    /\ Idle
    /\ LET l == initActiveBoxIds(ActiveList, target, context)
       IN  /\ activeBoxIds' = l.activeBoxIds
           /\ activeBoxIdCount' = l.activeBoxIdCount
    /\ BoxCall("initActiveBoxIds", ActiveList, 0)
    /\ UNCHANGED <<dst, mspBoxModeFlags>>

\* the number of changes of the context in one exploration
MaxContextEdits == 1

\* s with member x added if absent, removed if present
Flip(s, x) == IF x \in s THEN s \ {x} ELSE s \cup {x}

\* the contexts one change away from c: a sensor is detected or lost, the
\* vehicle state, a feature or a setting changes
ContextChanges(c) ==
    { [c EXCEPT !.sensors = Flip(c.sensors, x)] : x \in SensorBits }
    \cup { [c EXCEPT !.stateFlags = Flip(c.stateFlags, x)] : x \in StateBits }
    \cup { [c EXCEPT !.features = Flip(c.features, x)] : x \in BoxFeatureBits }
    \cup { [c EXCEPT !.use_gps_no_baro = ~c.use_gps_no_baro],
           [c EXCEPT !.allow_dead_reckoning = ~c.allow_dead_reckoning],
           [c EXCEPT !.telemetry_switch = ~c.telemetry_switch],
           [c EXCEPT !.motorProtocolDshot = ~c.motorProtocolDshot] }
    \cup { [c EXCEPT !.hwCompassStatus = x] : x \in HwSensorStatus \ {c.hwCompassStatus} }
    \cup { [c EXCEPT !.platformType = x] : x \in PlatformTypes \ {c.platformType} }

ChangeContext ==
    /\ Idle
    /\ edits < MaxContextEdits
    /\ context' \in ContextChanges(context)
    /\ edits' = edits + 1
    /\ UNCHANGED <<configVars, pc, log, handler, before, entry, target, runtime,
                   activeBoxIds, activeBoxIdCount, dst, mspBoxModeFlags>>

-----------------------------------------------------------------------------
(* The mode boxes: the replies *)

BOX_SUFFIX == ";"
BOX_SUFFIX_LEN == 1

\* what a write past the end of the destination can do: the bytes land in
\* the memory behind the buffer, or the access faults and the device stops
UndefinedOutcomes == {"overwrite", "fault"}

\* an empty destination with room for free bytes
sbuf(free) == [ free |-> free, data |-> <<>>, past |-> <<>>, fault |-> FALSE ]

sbufBytesRemaining(d) == d.free

\* the bytes items lo to hi take: those of each half, added
RECURSIVE BytesBetween(_, _, _)
BytesBetween(lens, lo, hi) ==
    IF lo > hi THEN 0
    ELSE IF lo = hi THEN lens[lo]
    ELSE BytesBetween(lens, lo, (lo + hi) \div 2)
         + BytesBetween(lens, (lo + hi) \div 2 + 1, hi)

\* the bytes the first k items take
BytesOf(lens, k) == BytesBetween(lens, 1, k)

\* a run of sbufWriteData and sbufWriteU8 calls that write items, lens[j]
\* bytes for item j: the bytes are copied and the room left is not checked;
\* once an item does not fit, it and the following ones are written past the
\* end of the destination
sbufWrite(d, items, lens, ub) ==
    LET total == BytesOf(lens, Len(items))
        fit == IF total <= d.free
               THEN Len(items)
               ELSE Cardinality({ k \in 1 .. Len(items) : BytesOf(lens, k) <= d.free })
    IN  IF fit = Len(items)
        THEN [d EXCEPT !.data = @ \o items, !.free = @ - total]
        ELSE IF ub = "overwrite"
             THEN [d EXCEPT !.data = @ \o SubSeq(items, 1, fit),
                            !.past = SubSeq(items, fit + 1, Len(items)),
                            !.free = 0]
             ELSE [d EXCEPT !.data = @ \o SubSeq(items, 1, fit),
                            !.free = 0,
                            !.fault = TRUE]

\* the positions of the list whose box findBoxByActiveBoxId finds, in order
FoundPositions(l) ==
    LET found(i) == boxOfActiveBoxId[l.activeBoxIds[i]] # NULL
    IN  SelectSeq([k \in 1 .. l.activeBoxIdCount |-> k - 1], found)

\* first loop of serializeBoxNamesReply: replyLengthTotal
serializeBoxNamesReply_length(l) ==
    LET at == FoundPositions(l)
    IN  BytesOf([k \in 1 .. Len(at) |->
                   Len(boxOfActiveBoxId[l.activeBoxIds[at[k]]].boxName)
                   + BOX_SUFFIX_LEN],
                Len(at))

\* second loop of serializeBoxNamesReply: each name, then the suffix
serializeBoxNamesReply_write(l, d, ub) ==
    LET at == FoundPositions(l)
        name(k) == boxOfActiveBoxId[l.activeBoxIds[at[(k + 1) \div 2]]].boxName
        items == [k \in 1 .. 2 * Len(at) |-> IF k % 2 = 1 THEN name(k) ELSE BOX_SUFFIX]
        lens == [k \in 1 .. 2 * Len(at) |-> IF k % 2 = 1 THEN Len(name(k)) ELSE 1]
    IN  sbufWrite(d, items, lens, ub)

\* serializeBoxNamesReply that also refuses a destination the reply just fits
serializeBoxNamesReply_RejectsExactFit(l, d, ub) ==
    LET replyLengthTotal == serializeBoxNamesReply_length(l)
    IN  IF sbufBytesRemaining(d) <= replyLengthTotal
        THEN [ res |-> FALSE, dst |-> d ]
        ELSE [ res |-> TRUE, dst |-> serializeBoxNamesReply_write(l, d, ub) ]

\* the returned value and the destination after serializeBoxNamesReply(dst)
serializeBoxNamesReply(l, d, ub) ==
    LET replyLengthTotal == serializeBoxNamesReply_length(l)
    IN  IF sbufBytesRemaining(d) < replyLengthTotal
        THEN [ res |-> FALSE, dst |-> d ]
        ELSE [ res |-> TRUE, dst |-> serializeBoxNamesReply_write(l, d, ub) ]

\* serializeBoxReply that leaves out the box at position 1
serializeBoxReply_SkipsOne(l, d, ub) ==
    LET kept(i) == i # 1
        at == SelectSeq(FoundPositions(l), kept)
        items == [k \in 1 .. Len(at) |-> boxOfActiveBoxId[l.activeBoxIds[at[k]]].permanentId]
    IN  sbufWrite(d, items, [k \in 1 .. Len(at) |-> 1], ub)

\* the destination after serializeBoxReply(dst): one sbufWriteU8 of the
\* permanent id for each box that is found
serializeBoxReply(l, d, ub) ==
    LET at == FoundPositions(l)
        items == [k \in 1 .. Len(at) |-> boxOfActiveBoxId[l.activeBoxIds[at[k]]].permanentId]
    IN  sbufWrite(d, items, [k \in 1 .. Len(at) |-> 1], ub)

\* the sizes of destination tried for a reply of needed bytes
FreeSpaces(needed) == { f \in {needed - 1, needed, needed + 1} : f >= 0 }

serializeBoxNamesReplyCall ==
    /\ Idle
    /\ \E free \in FreeSpaces(serializeBoxNamesReply_length(ActiveList)) :
       \* serializeBoxNamesReply makes no write that can run past the end
       \E ub \in {"overwrite"} :
         LET r == serializeBoxNamesReply(ActiveList, sbuf(free), ub)
         IN  /\ dst' = r.dst
             /\ BoxCall("serializeBoxNamesReply", free, r.res)
    /\ UNCHANGED <<activeBoxIds, activeBoxIdCount, mspBoxModeFlags>>

\* a call of serializeBoxReply either returns (nothing: it is void) or faults
serializeBoxReplyCall ==
    /\ Idle
    /\ \E free \in FreeSpaces(activeBoxIdCount) :
       \* no write runs past the end when the whole reply fits
       \E ub \in IF free >= activeBoxIdCount THEN {"overwrite"} ELSE UndefinedOutcomes :
         /\ LET d == serializeBoxReply(ActiveList, sbuf(free), ub)
            IN  /\ dst' = d
                /\ handler' = [fn |-> "serializeBoxReply", arg |-> free]
                /\ log' = << [ op |-> "serializeBoxReply", arg |-> free, res |-> "void",
                               done |-> IF d.fault THEN {} ELSE {"serializeBoxReply"} ] >>
    /\ UNCHANGED <<configVars, pc, before, entry, edits, target, context, runtime,
                   activeBoxIds, activeBoxIdCount, mspBoxModeFlags>>

\* the list is built, read and rebuilt while the context changes
InitBox ==
    /\ ConfigAtRest
    /\ target \in BoxTargets
    /\ context \in ContextPresets
    /\ runtime = RuntimeAtRest
    /\ activeBoxIds = ZeroedActiveBoxIds
    /\ activeBoxIdCount = 0
    /\ dst = NoBuffer
    /\ mspBoxModeFlags = {}

NextBox ==
    \/ ChangeContext
    \/ initActiveBoxIdsCall
    \/ serializeBoxNamesReplyCall
    \/ serializeBoxReplyCall
    \/ Return

SpecBox == InitBox /\ [][NextBox]_vars

-----------------------------------------------------------------------------
(* The mode boxes: the live flags *)

\* the mode ids whose CHECK_ACTIVE_BOX condition is true on target t with
\* the live flags r: the entries of activeBoxes that are set
packBoxModeFlags_activeBoxes(t, r) ==
    LET FLIGHT_MODE(mask) == mask \in r.flightModeFlags
        IS_RC_MODE_ACTIVE(name) == Box(name) \in r.rcModeActive
        checks ==
            << <<FLIGHT_MODE("ANGLE_MODE"), "BOXANGLE">>,
               <<FLIGHT_MODE("HORIZON_MODE"), "BOXHORIZON">>,
               <<FLIGHT_MODE("HEADING_MODE"), "BOXHEADINGHOLD">>,
               <<FLIGHT_MODE("HEADFREE_MODE"), "BOXHEADFREE">>,
               <<IS_RC_MODE_ACTIVE("BOXHEADADJ"), "BOXHEADADJ">>,
               <<IS_RC_MODE_ACTIVE("BOXCAMSTAB"), "BOXCAMSTAB">>,
               <<IS_RC_MODE_ACTIVE("BOXFPVANGLEMIX"), "BOXFPVANGLEMIX">>,
               <<FLIGHT_MODE("MANUAL_MODE"), "BOXMANUAL">>,
               <<IS_RC_MODE_ACTIVE("BOXBEEPERON"), "BOXBEEPERON">>,
               <<IS_RC_MODE_ACTIVE("BOXLEDLOW"), "BOXLEDLOW">>,
               <<IS_RC_MODE_ACTIVE("BOXLIGHTS"), "BOXLIGHTS">>,
               <<IS_RC_MODE_ACTIVE("BOXOSD"), "BOXOSD">>,
               <<IS_RC_MODE_ACTIVE("BOXTELEMETRY"), "BOXTELEMETRY">>,
               <<r.armed, "BOXARM">>,
               <<IS_RC_MODE_ACTIVE("BOXBLACKBOX"), "BOXBLACKBOX">>,
               <<FLIGHT_MODE("FAILSAFE_MODE"), "BOXFAILSAFE">>,
               <<FLIGHT_MODE("NAV_ALTHOLD_MODE"), "BOXNAVALTHOLD">>,
               <<FLIGHT_MODE("NAV_POSHOLD_MODE"), "BOXNAVPOSHOLD">>,
               <<FLIGHT_MODE("NAV_COURSE_HOLD_MODE"), "BOXNAVCOURSEHOLD">>,
               <<FLIGHT_MODE("NAV_COURSE_HOLD_MODE") /\ FLIGHT_MODE("NAV_ALTHOLD_MODE"),
                 "BOXNAVCRUISE">>,
               <<FLIGHT_MODE("NAV_RTH_MODE"), "BOXNAVRTH">>,
               <<FLIGHT_MODE("NAV_WP_MODE"), "BOXNAVWP">>,
               <<IS_RC_MODE_ACTIVE("BOXAIRMODE"), "BOXAIRMODE">>,
               <<IS_RC_MODE_ACTIVE("BOXGCSNAV"), "BOXGCSNAV">>,
               <<t.USE_FLM_FLAPERON /\ FLIGHT_MODE("FLAPERON"), "BOXFLAPERON">>,
               <<FLIGHT_MODE("TURN_ASSISTANT"), "BOXTURNASSIST">>,
               <<FLIGHT_MODE("NAV_LAUNCH_MODE"), "BOXNAVLAUNCH">>,
               <<FLIGHT_MODE("AUTO_TUNE"), "BOXAUTOTUNE">>,
               <<IS_RC_MODE_ACTIVE("BOXAUTOTRIM"), "BOXAUTOTRIM">>,
               <<IS_RC_MODE_ACTIVE("BOXKILLSWITCH"), "BOXKILLSWITCH">>,
               <<IS_RC_MODE_ACTIVE("BOXHOMERESET"), "BOXHOMERESET">>,
               <<IS_RC_MODE_ACTIVE("BOXCAMERA1"), "BOXCAMERA1">>,
               <<IS_RC_MODE_ACTIVE("BOXCAMERA2"), "BOXCAMERA2">>,
               <<IS_RC_MODE_ACTIVE("BOXCAMERA3"), "BOXCAMERA3">>,
               <<IS_RC_MODE_ACTIVE("BOXOSDALT1"), "BOXOSDALT1">>,
               <<IS_RC_MODE_ACTIVE("BOXOSDALT2"), "BOXOSDALT2">>,
               <<IS_RC_MODE_ACTIVE("BOXOSDALT3"), "BOXOSDALT3">>,
               <<r.terrainFollowing, "BOXSURFACE">>,
               <<IS_RC_MODE_ACTIVE("BOXBRAKING"), "BOXBRAKING">>,
               <<IS_RC_MODE_ACTIVE("BOXUSER1"), "BOXUSER1">>,
               <<IS_RC_MODE_ACTIVE("BOXUSER2"), "BOXUSER2">>,
               <<IS_RC_MODE_ACTIVE("BOXLOITERDIRCHN"), "BOXLOITERDIRCHN">>,
               <<t.USE_MSP_RC_OVERRIDE /\ IS_RC_MODE_ACTIVE("BOXMSPRCOVERRIDE"),
                 "BOXMSPRCOVERRIDE">>,
               <<IS_RC_MODE_ACTIVE("BOXAUTOLEVEL"), "BOXAUTOLEVEL">>,
               <<IS_RC_MODE_ACTIVE("BOXPLANWPMISSION"), "BOXPLANWPMISSION">>,
               <<IS_RC_MODE_ACTIVE("BOXSOARING"), "BOXSOARING">> >>
    IN  { Box(checks[k][2]) : k \in { j \in DOMAIN checks : checks[j][1] } }

\* the bits of mspBoxModeFlags that packBoxModeFlags sets: bit i for every
\* position i of the list whose mode id is set in activeBoxes
packBoxModeFlags(l, t, r) ==
    LET activeBoxes == packBoxModeFlags_activeBoxes(t, r)
    IN  { i \in DOMAIN l.activeBoxIds :
            i < l.activeBoxIdCount /\ l.activeBoxIds[i] \in activeBoxes }

packBoxModeFlagsCall ==
    /\ Idle
    /\ mspBoxModeFlags' = packBoxModeFlags(ActiveList, target, runtime)
    /\ BoxCall("packBoxModeFlags", 0, "void")
    /\ UNCHANGED <<activeBoxIds, activeBoxIdCount, dst>>

\* the number of changes of the live flags in one exploration
MaxRuntimeEdits == 1

\* the live flags one change away from r: a flight mode starts or ends, an rc
\* mode switch is moved, the craft is armed or disarmed
RuntimeChanges(r) ==
    { [r EXCEPT !.flightModeFlags = Flip(r.flightModeFlags, x)] : x \in FlightModeBits }
    \cup { [r EXCEPT !.rcModeActive = Flip(r.rcModeActive, x)] : x \in BoxIds }
    \cup { [r EXCEPT !.armed = ~r.armed],
           [r EXCEPT !.terrainFollowing = ~r.terrainFollowing] }

ChangeRuntime ==
    /\ Idle
    /\ edits < MaxRuntimeEdits
    /\ runtime' \in RuntimeChanges(runtime)
    /\ edits' = edits + 1
    /\ UNCHANGED <<configVars, pc, log, handler, before, entry, target, context,
                   activeBoxIds, activeBoxIdCount, dst, mspBoxModeFlags>>

\* the list is built once and read while the live flags change
InitFlags ==
    /\ ConfigAtRest
    /\ target \in BoxTargets
    /\ context \in {FullMultirotor, Airplane}
    /\ runtime \in {RuntimeAtRest, RuntimeAllActive}
    /\ activeBoxIds = ZeroedActiveBoxIds
    /\ activeBoxIdCount = 0
    /\ dst = NoBuffer
    /\ mspBoxModeFlags = {}

NextFlags ==
    \/ ChangeRuntime
    \/ initActiveBoxIdsCall
    \/ serializeBoxNamesReplyCall
    \/ serializeBoxReplyCall
    \/ packBoxModeFlagsCall
    \/ Return

SpecFlags == InitFlags /\ [][NextFlags]_vars

-----------------------------------------------------------------------------
(* Properties *)

\* function fn returned with the last call made
JustDone(fn) == log # <<>> /\ fn \in log[Len(log)].done

\* the names of the calls made, in order
OpsOf(l) == [i \in 1 .. Len(l) |-> l[i].op]

IsStorageOp(o) == o \in {"writeConfigToEEPROM", "loadEEPROM"}

IsCycleOp(o) ==
    o \in {"writeConfigToEEPROM", "loadEEPROM", "validateAndFixConfig", "activateConfig"}

\* C1: validateAndFixConfig is idempotent: run again on the configuration
\* and arming flag that a run has just left, it changes no field of the
\* configuration and leaves the arming flag as it is.
C1_ValidateIdempotent ==
    JustDone("validateAndFixConfig") =>
        /\ validateAndFixConfig(S).cfg = cfg
        /\ validateAndFixConfig(S).armingDisabledInvalidSetting
              = armingDisabledInvalidSetting

\* a run of the validator that had several fields to fix
C1_Witness ==
    /\ JustDone("validateAndFixConfig")
    /\ before.motorPwmRate = 50000
    /\ cfg.motorPwmRate # 50000
    /\ before.land_slowdown_minalt # cfg.land_slowdown_minalt
    /\ before.enabledFeatures # cfg.enabledFeatures

\* C10: after validateAndFixConfig the lower landing-slowdown threshold is
\* at most the upper threshold minus 100, for every stored pair, an upper
\* threshold below 100 included.
C10_RangeInvariant ==
    JustDone("validateAndFixConfig") =>
        cfg.land_slowdown_minalt <= cfg.land_slowdown_maxalt - LAND_SLOWDOWN_MARGIN


\* what a caller and the store see of a profile switch that has returned
Observed(r) ==
    [ ret |-> r.log[1].res,
      current_profile_index |-> r.systemConfig.current_profile_index,
      current_battery_profile_index |-> r.systemConfig.current_battery_profile_index,
      activeProfile |-> r.activeProfile,
      storage |-> SelectSeq(OpsOf(r.log), IsStorageOp),
      beeps |-> r.log[Len(r.log)].arg,
      failed |-> r.failed ]

\* C2: a profile switch (flight or battery) to an index that is too large
\* behaves as the switch to index 0 from the same state: same value returned
\* by setConfigProfile, same resulting index, same storage writes and
\* reloads, same confirmation signal.
C2_ProfileClamp ==
    (Idle /\ booted = "active") =>
        \A i \in RequestedIndices :
            /\ i >= MAX_PROFILE_COUNT =>
                Observed(Run(Call(S, "setConfigProfileAndWriteEEPROM", i,
                                  setConfigProfileAndWriteEEPROM_ops(i))))
                = Observed(Run(Call(S, "setConfigProfileAndWriteEEPROM", 0,
                                    setConfigProfileAndWriteEEPROM_ops(0))))
            /\ i >= MAX_BATTERY_PROFILE_COUNT =>
                Observed(Run(Call(S, "setConfigBatteryProfileAndWriteEEPROM", i,
                                  setConfigBatteryProfileAndWriteEEPROM_ops(i))))
                = Observed(Run(Call(S, "setConfigBatteryProfileAndWriteEEPROM", 0,
                                    setConfigBatteryProfileAndWriteEEPROM_ops(0))))

\* C3: ensureEEPROMContainsValidData recovers exactly when the image fails
\* the integrity check: then every group of every slot is reset, the default
\* configuration is created, a fresh valid image is written, and flight
\* profile 0 and battery profile 0 are the current ones; otherwise nothing
\* is reset and nothing is written.
C3_EnsureValid ==
    Returned("ensureEEPROMContainsValidData") =>
        IF entry.image.valid
        THEN /\ OpsOf(log) = << "isEEPROMContentValid" >>
             /\ cfg = entry.cfg
             /\ systemConfig = entry.systemConfig
             /\ profiles = entry.profiles
             /\ image = entry.image
        ELSE /\ OpsOf(log) = << "isEEPROMContentValid", "pgResetAll",
                                "pgActivateProfile", "createDefaultConfig",
                                "setConfigProfile", "suspendRxSignal",
                                "writeConfigToEEPROM", "resumeRxSignal" >>
             /\ cfg = [ResetTemplateCfg EXCEPT !.enabledFeatures = {"AIRMODE"}]
             /\ profiles = ResetTemplateProfiles
             /\ systemConfig = ResetTemplateSystemConfig
             /\ activeProfile = 0
             /\ controlRateProfile = 0
             /\ image = [ valid |-> TRUE, cfg |-> cfg,
                          systemConfig |-> systemConfig, profiles |-> profiles ]

\* the recovery has run on an image that failed the check
C3_Witness ==
    /\ Returned("ensureEEPROMContainsValidData")
    /\ ~entry.image.valid
    /\ image.valid

\* C4: when loadEEPROM reports the store unreadable, readEEPROM enters the
\* failure mode, which is terminal: nothing but failureMode is called after
\* the failed load (no validateAndFixConfig, no activateConfig), and once
\* the failure mode is entered no step is possible.
C4_FatalLoad ==
    /\ \A i \in DOMAIN log :
        (log[i].op = "loadEEPROM" /\ ~log[i].res) =>
            /\ \A j \in DOMAIN log : j > i => log[j].op = "failureMode"
            /\ \/ failed
               \/ pc # <<>> /\ Head(pc).op = "failureMode"
    /\ failed => (pc = <<>> /\ ~ENABLED Next)

\* the failure mode entered from a failed load
C4_Witness ==
    /\ failed
    /\ \E i \in DOMAIN log : log[i].op = "loadEEPROM" /\ ~log[i].res

\* C5: a switch to the profile index that is already current (flight or
\* battery) is a no-op: setConfigProfile returns false, no storage write
\* and no reload are made, and the stored indices and the persisted image
\* are as they were.
C5_SwitchToCurrentIsNoOp ==
    /\ ( /\ Returned("setConfigProfileAndWriteEEPROM")
         /\ handler.arg = entry.systemConfig.current_profile_index )
       => /\ log[1].op = "setConfigProfile"
          /\ ~log[1].res
          /\ SelectSeq(OpsOf(log), IsStorageOp) = <<>>
          /\ systemConfig = entry.systemConfig
          /\ image = entry.image
    /\ ( /\ Returned("setConfigBatteryProfileAndWriteEEPROM")
         /\ handler.arg = entry.systemConfig.current_battery_profile_index )
       => /\ log[1].op = "setConfigBatteryProfile"
          /\ ~log[1].res
          /\ SelectSeq(OpsOf(log), IsStorageOp) = <<>>
          /\ systemConfig = entry.systemConfig
          /\ image = entry.image

\* a switch to the current flight profile, made with an unsaved edit in RAM
C5_Witness ==
    /\ Returned("setConfigProfileAndWriteEEPROM")
    /\ handler.arg = entry.systemConfig.current_profile_index
    /\ handler.arg = 2
    /\ profiles # image.profiles

\* C6: a switch to a valid flight profile index other than the current one
\* makes exactly one storage write, then one reload, then the validation
\* and the activation; when it has returned the current profile index, the
\* activated profile and the index in the persisted image are the requested
\* one, and the image holds every profile slot as it was in RAM before the
\* switch (the edits of the outgoing profile included).
C6_SwitchSavesAndReloads ==
    ( /\ Returned("setConfigProfileAndWriteEEPROM")
      /\ handler.arg < MAX_PROFILE_COUNT
      /\ handler.arg # entry.systemConfig.current_profile_index )
    => /\ SelectSeq(OpsOf(log), IsCycleOp)
            = << "writeConfigToEEPROM", "loadEEPROM",
                 "validateAndFixConfig", "activateConfig" >>
       /\ systemConfig.current_profile_index = handler.arg
       /\ activeProfile = handler.arg
       /\ image.systemConfig.current_profile_index = handler.arg
       /\ image.profiles = entry.profiles
       /\ profiles = entry.profiles

\* a switch away from a profile that was edited in RAM and not yet saved
C6_Witness ==
    /\ Returned("setConfigProfileAndWriteEEPROM")
    /\ handler.arg < MAX_PROFILE_COUNT
    /\ handler.arg # entry.systemConfig.current_profile_index
    /\ entry.profiles[entry.systemConfig.current_profile_index]
          # entry.image.profiles[entry.systemConfig.current_profile_index]
    /\ image.profiles = entry.profiles

\* the storage write is about to be made or has just been made
AtWrite ==
    \/ pc # <<>> /\ Head(pc).op = "writeConfigToEEPROM"
    \/ JustDone("writeConfigToEEPROM")

\* C7: rx signal intake is suspended whenever the storage write is made
\* (from before writeConfigToEEPROM until after it), and it is active again
\* whenever writeEEPROM or readEEPROM has returned.
C7_WriteWhileSuspended ==
    /\ AtWrite => rxSuspended
    /\ (JustDone("writeEEPROM") \/ JustDone("readEEPROM")) => ~rxSuspended

\* the write has just been made inside its suspension
C7_Witness ==
    /\ JustDone("writeConfigToEEPROM")
    /\ rxSuspended
    /\ image.cfg # entry.image.cfg

\* writeEEPROM has returned and readEEPROM is about to start
BetweenWriteAndReload ==
    /\ JustDone("writeEEPROM")
    /\ pc # <<>>
    /\ Head(pc).op = "suspendRxSignal"

IndicesInRange ==
    /\ systemConfig.current_profile_index < MAX_PROFILE_COUNT
    /\ systemConfig.current_battery_profile_index < MAX_BATTERY_PROFILE_COUNT

FlightProfileSelected ==
    /\ systemConfig.current_profile_index < MAX_PROFILE_COUNT
    /\ activeProfile = systemConfig.current_profile_index
    /\ controlRateProfile = systemConfig.current_profile_index

\* C9, as claimed: whenever readEEPROM, setConfigProfile,
\* setConfigBatteryProfile or resetConfigs has returned, both stored indices
\* are in range and the activated profile and the control-rate profile are
\* the stored flight profile index.
C9_IndicesInRangeAfterEach ==
    ( \/ JustDone("readEEPROM")
      \/ JustDone("setConfigProfile")
      \/ JustDone("setConfigBatteryProfile")
      \/ JustDone("resetConfigs") )
    => (IndicesInRange /\ FlightProfileSelected)

\* C9, amended: whenever readEEPROM, setConfigBatteryProfile or resetConfigs
\* has returned, both stored indices are in range; whenever setConfigProfile
\* has returned, the stored flight profile index is in range (the battery
\* index is the one loaded until setConfigBatteryProfile has run); in all
\* four cases the activated profile and the control-rate profile are the
\* stored flight profile index.
C9_IndicesInRange ==
    /\ ( \/ JustDone("readEEPROM")
         \/ JustDone("setConfigBatteryProfile")
         \/ JustDone("resetConfigs") )
       => (IndicesInRange /\ FlightProfileSelected)
    /\ JustDone("setConfigProfile") => FlightProfileSelected

\* readEEPROM has returned after loading an image whose indices are both
\* out of range
C9_Witness ==
    /\ JustDone("readEEPROM")
    /\ entry.image.systemConfig.current_profile_index >= MAX_PROFILE_COUNT
    /\ entry.image.systemConfig.current_battery_profile_index >= MAX_BATTERY_PROFILE_COUNT
    /\ systemConfig = ResetTemplateSystemConfig

\* the band of rates the claim gives each output protocol
RateBand(protocol) ==
    CASE protocol = PWM_TYPE_STANDARD -> [ low |-> 0, high |-> 490 ]
      [] protocol = PWM_TYPE_ONESHOT125 -> [ low |-> 0, high |-> 3900 ]
      [] protocol = PWM_TYPE_MULTISHOT -> [ low |-> 2000, high |-> 16000 ]
      [] protocol = PWM_TYPE_BRUSHED -> [ low |-> 500, high |-> 32000 ]
      [] protocol = PWM_TYPE_DSHOT150 -> [ low |-> 0, high |-> 4000 ]
      [] protocol = PWM_TYPE_DSHOT300 -> [ low |-> 0, high |-> 8000 ]
      [] protocol = PWM_TYPE_DSHOT600 -> [ low |-> 0, high |-> 16000 ]

ClampToBand(rate, band) ==
    IF rate < band.low THEN band.low ELSE IF rate > band.high THEN band.high ELSE rate

KnownProtocols == PWM_TYPE_STANDARD .. PWM_TYPE_DSHOT600

\* C11, as claimed: after validateAndFixConfig the motor rate is the stored
\* rate clamped to the band of the stored output protocol (DSHOT600 16000,
\* DSHOT300 8000, DSHOT150 4000, MULTISHOT 2000..16000, BRUSHED 500..32000,
\* STANDARD 490, ONESHOT125 3900), on every build.
C11_RateClampedToStoredProtocolBand ==
    (JustDone("validateAndFixConfig") /\ before.motorPwmProtocol \in KnownProtocols) =>
        cfg.motorPwmRate
            = ClampToBand(before.motorPwmRate, RateBand(before.motorPwmProtocol))

\* C11, amended: in a build without BRUSHED_MOTORS the motor rate is the
\* stored rate clamped to the band of the protocol that is selected after
\* the protocol fix (without USE_DSHOT a DSHOT-class protocol has become
\* MULTISHOT, so the DSHOT bands apply only with USE_DSHOT); in a build with
\* BRUSHED_MOTORS the rate is the stored rate clamped to 500..32000 whatever
\* the protocol.
C11_RateClampedToBandOfBuild ==
    (JustDone("validateAndFixConfig") /\ cfg.motorPwmProtocol \in KnownProtocols) =>
        /\ ~build.USE_DSHOT => cfg.motorPwmProtocol <= PWM_TYPE_BRUSHED
        /\ cfg.motorPwmRate
            = IF build.BRUSHED_MOTORS
              THEN ClampToBand(before.motorPwmRate, [ low |-> 500, high |-> 32000 ])
              ELSE ClampToBand(before.motorPwmRate, RateBand(cfg.motorPwmProtocol))

\* a stored 50000 with DSHOT300 on a build with USE_DSHOT has become 8000
C11_Witness ==
    /\ JustDone("validateAndFixConfig")
    /\ build.USE_DSHOT
    /\ ~build.BRUSHED_MOTORS
    /\ before.motorPwmProtocol = PWM_TYPE_DSHOT300
    /\ before.motorPwmRate = 50000
    /\ cfg.motorPwmRate = 8000

\* C12: when validateAndFixConfig has run, ARMING_DISABLED_INVALID_SETTING
\* is set if and only if settingsValidate failed in that run (so a flag set
\* by an earlier run is cleared by a run in which the check passes), and no
\* other step of the load/validate/activate/save cycle changes the flag.
C12_FlagFollowsSettingsCheck ==
    /\ [](JustDone("validateAndFixConfig") =>
            (armingDisabledInvalidSetting <=> ~settingsValidate(cfg)))
    /\ [][ armingDisabledInvalidSetting' # armingDisabledInvalidSetting =>
            (pc # <<>> /\ Head(pc).op = "validateAndFixConfig") ]_vars

\* a run in which the check passes has cleared the flag an earlier run set
C12_Witness ==
    /\ JustDone("validateAndFixConfig")
    /\ entry.armingDisabledInvalidSetting
    /\ ~armingDisabledInvalidSetting
    /\ settingsValidate(cfg)

\* the order the claim gives for what follows a successful load
ClaimedOrderAfterLoad ==
    << "setConfigProfile", "setConfigBatteryProfile", "validateAndFixConfig",
       "activateConfig",
       "activateControlRateConfig", "activateBatteryProfile",
       "resetAdjustmentStates", "updateUsedModeActivationConditionFlags",
       "failsafeReset", "accSetCalibrationValues", "accInitFilters",
       "imuConfigure", "pidInit", "navigationUsePIDs",
       "resumeRxSignal" >>

IsActivation(o) ==
    \E k \in DOMAIN ClaimedOrderAfterLoad :
        k > 3 /\ k < Len(ClaimedOrderAfterLoad) /\ ClaimedOrderAfterLoad[k] = o

\* C20: in every readEEPROM run that loads successfully, what follows the
\* load is, in this order: setConfigProfile, setConfigBatteryProfile,
\* validateAndFixConfig, then the subsystems in the order rate profile,
\* battery profile, adjustment states, mode activation conditions, failsafe,
\* accelerometer calibration and filters, IMU, PID, navigation PIDs; and
\* whenever a subsystem is about to be activated the configuration is the
\* one the validator has left.
C20_SelectValidateActivateInOrder ==
    /\ \A i \in DOMAIN log :
        (log[i].op = "loadEEPROM" /\ log[i].res) =>
            LET after == SubSeq(OpsOf(log), i + 1, Len(log))
                n == IF Len(after) < Len(ClaimedOrderAfterLoad)
                     THEN Len(after) ELSE Len(ClaimedOrderAfterLoad)
            IN  /\ SubSeq(after, 1, n) = SubSeq(ClaimedOrderAfterLoad, 1, n)
                /\ (\E j \in DOMAIN log : j > i /\ "readEEPROM" \in log[j].done)
                      => n = Len(ClaimedOrderAfterLoad)
    /\ (pc # <<>> /\ ~failed /\ IsActivation(Head(pc).op)) =>
            /\ \E i \in DOMAIN log : log[i].op = "validateAndFixConfig"
            /\ cfg = validateAndFixConfig_cfg(before, build)

\* a readEEPROM that has returned after the validator had something to fix
C20_Witness ==
    /\ JustDone("readEEPROM")
    /\ handler.fn = "readEEPROM"
    /\ Len(log) = Len(ClaimedOrderAfterLoad) + 2
    /\ before # cfg


\* the boxes of the catalog that are modes: every entry that has a name
RealBoxes == { boxes[i] : i \in { j \in DOMAIN boxes : boxes[j].boxName # NULL_NAME } }

\* the result of the lookup that has just returned
LookupResult == log[Len(log)].res

\* C19: findBoxByActiveBoxId and findBoxByPermanentId return NULL for every id
\* that is not the mode id, respectively the permanent id, of a real catalog
\* box (CHECKBOX_ITEM_COUNT and 0xFF included), return the box with that id
\* when there is one, and never return a box without a name.
C19_LookupNullForUnknownId ==
    /\ Returned("findBoxByActiveBoxId") =>
         /\ (\E b \in RealBoxes : b.boxId = handler.arg)
               => (LookupResult \in RealBoxes /\ LookupResult.boxId = handler.arg)
         /\ (\A b \in RealBoxes : b.boxId # handler.arg) => LookupResult = NULL
    /\ Returned("findBoxByPermanentId") =>
         /\ (\E b \in RealBoxes : b.permanentId = handler.arg)
               => (LookupResult \in RealBoxes /\ LookupResult.permanentId = handler.arg)
         /\ (\A b \in RealBoxes : b.permanentId # handler.arg) => LookupResult = NULL

\* what the lookups do: the terminating entry is found like a box
C19_SentinelIsFound ==
    /\ Returned("findBoxByActiveBoxId") =>
         LookupResult = (IF handler.arg <= CHECKBOX_ITEM_COUNT
                         THEN CHOOSE b \in {boxes[i] : i \in DOMAIN boxes} :
                                b.boxId = handler.arg
                         ELSE NULL)
    /\ Returned("findBoxByPermanentId") =>
         LookupResult = (IF \E i \in DOMAIN boxes : boxes[i].permanentId = handler.arg
                         THEN CHOOSE b \in {boxes[i] : i \in DOMAIN boxes} :
                                b.permanentId = handler.arg
                         ELSE NULL)

\* a lookup of CHECKBOX_ITEM_COUNT has returned
C19_Witness ==
    /\ Returned("findBoxByActiveBoxId")
    /\ handler.arg = CHECKBOX_ITEM_COUNT


\* the list before the first build
PristineList == [ activeBoxIds |-> ZeroedActiveBoxIds, activeBoxIdCount |-> 0 ]

\* C15: initActiveBoxIds is deterministic and rebuilds the list wholesale:
\* the list it leaves is the one it builds from the pristine array in the same
\* context, whatever list an earlier run in another context left (handler.arg),
\* and a second run in the same context leaves the same contents and count.
C15_RebuildDependsOnContextOnly ==
    Returned("initActiveBoxIds") =>
        /\ ActiveList = initActiveBoxIds(PristineList, target, context)
        /\ ActiveList = initActiveBoxIds(ActiveList, target, context)
        /\ \A i \in BoxIds :
             i >= activeBoxIdCount => activeBoxIds[i] = UINT8_MAX

\* a rebuild has replaced a longer list that an earlier run left in a
\* different context
C15_Witness ==
    /\ Returned("initActiveBoxIds")
    /\ handler.arg.activeBoxIdCount > activeBoxIdCount
    /\ handler.arg.activeBoxIds # activeBoxIds
    /\ edits > 0


\* the mode ids in the filled part of the active-box list
ActiveBoxSet == { activeBoxIds[i] : i \in { j \in BoxIds : j < activeBoxIdCount } }

\* no sensor is installed and the vehicle is a multirotor
NoSensorsMultirotor ==
    /\ context.sensors = {}
    /\ context.hwCompassStatus = "HW_SENSOR_NONE"
    /\ context.stateFlags = {"MULTIROTOR", "ALTITUDE_CONTROL"}
    /\ context.platformType = "PLATFORM_MULTIROTOR"

BasicBoxes ==
    { Box(n) : n \in {"BOXARM", "BOXPREARM", "BOXHEADINGHOLD", "BOXCAMSTAB",
                      "BOXBEEPERON", "BOXOSD", "BOXKILLSWITCH", "BOXFAILSAFE"} }

NavigationBoxes ==
    { Box(n) : n \in {"BOXNAVALTHOLD", "BOXNAVPOSHOLD", "BOXNAVRTH", "BOXNAVWP",
                      "BOXHOMERESET", "BOXGCSNAV", "BOXPLANWPMISSION",
                      "BOXNAVCRUISE", "BOXNAVCOURSEHOLD", "BOXBRAKING",
                      "BOXSURFACE"} }

\* C16: on a multirotor with no sensors installed, whatever features and
\* settings are enabled, the list initActiveBoxIds builds contains ARM, PREARM,
\* HEADING HOLD, CAMSTAB, BEEPER, OSD OFF, KILLSWITCH and FAILSAFE and none of
\* the navigation or altitude boxes.
C16_NoSensorsNoNavigationBoxes ==
    (Returned("initActiveBoxIds") /\ NoSensorsMultirotor) =>
        /\ BasicBoxes \subseteq ActiveBoxSet
        /\ NavigationBoxes \cap ActiveBoxSet = {}

\* what the build does in that context: MC BRAKING follows the target alone,
\* NAV ALTHOLD follows the GPS feature with use_gps_no_baro
C16_NavigationBoxesWithoutSensors ==
    (Returned("initActiveBoxIds") /\ NoSensorsMultirotor) =>
        /\ BasicBoxes \subseteq ActiveBoxSet
        /\ NavigationBoxes \cap ActiveBoxSet =
             (IF target.USE_GPS /\ target.USE_MR_BRAKING_MODE
              THEN {Box("BOXBRAKING")} ELSE {})
             \cup (IF /\ target.USE_GPS
                      /\ "FEATURE_GPS" \in context.features
                      /\ context.use_gps_no_baro
                   THEN {Box("BOXNAVALTHOLD")} ELSE {})

\* the list has been built on a multirotor without sensors, with nothing
\* enabled, on a target with GPS and the braking mode
C16_Witness ==
    /\ Returned("initActiveBoxIds")
    /\ NoSensorsMultirotor
    /\ context.features = {}
    /\ target.USE_MR_BRAKING_MODE

\* the real box of each mode id
RealBoxOf == [ boxId \in BoxIds |-> CHOOSE b \in RealBoxes : b.boxId = boxId ]

\* the name of the real box with mode id boxId
NameOf(boxId) == RealBoxOf[boxId].boxName

\* the names of the active boxes, each followed by the separator, in list order
ActiveNames ==
    [ k \in 1 .. 2 * activeBoxIdCount |->
        IF k % 2 = 1 THEN NameOf(activeBoxIds[(k - 1) \div 2]) ELSE ";" ]

\* the number of characters of ActiveNames
ActiveNamesLength ==
    Cardinality({ <<i, n>> \in BoxIds \X (1 .. 17) :
                    i < activeBoxIdCount /\ n <= Len(NameOf(activeBoxIds[i])) + 1 })

\* C17: serializeBoxNamesReply never writes a partial payload: with fewer free
\* bytes than the names of the active boxes with their ';' take (one fewer
\* included) it returns false and writes nothing; with at least that many (just
\* that many included) it returns true and writes every name followed by ';'
\* in list order.
C17_NamesAllOrNothing ==
    Returned("serializeBoxNamesReply") =>
        LET needed == ActiveNamesLength
            free == handler.arg
        IN  /\ free < needed => (LookupResult = FALSE /\ dst = sbuf(free))
            /\ free >= needed =>
                 /\ LookupResult = TRUE
                 /\ dst.data = ActiveNames
                 /\ dst.free = free - needed
                 /\ dst.past = <<>>
                 /\ ~dst.fault

\* the names of a built list were asked into a destination one byte short
C17_Witness ==
    /\ Returned("serializeBoxNamesReply")
    /\ activeBoxIdCount > 0
    /\ handler.arg = ActiveNamesLength - 1
    /\ LookupResult = FALSE

\* C18: serializeBoxReply into a destination with fewer free bytes than there
\* are active boxes returns an explicit failure and emits no partial payload.
C18_IdsFailWithoutPartialPayload ==
    (handler.fn = "serializeBoxReply" /\ handler.arg < activeBoxIdCount) =>
        /\ JustDone("serializeBoxReply")
        /\ LookupResult \notin {"void"}
        /\ dst.data = <<>>
        /\ dst.past = <<>>

\* what the build does: the ids that fit are written, and the write of the
\* next one runs past the end of the destination
C18_IdsOverrunDestination ==
    (handler.fn = "serializeBoxReply" /\ handler.arg < activeBoxIdCount) =>
        /\ LookupResult = "void"
        /\ Len(dst.data) = handler.arg
        /\ dst.fault \/ Len(dst.data) + Len(dst.past) = activeBoxIdCount
        /\ dst.fault \/ dst.past # <<>>

\* the ids were asked into a destination one byte short
C18_Witness ==
    /\ handler.fn = "serializeBoxReply"
    /\ activeBoxIdCount > 1
    /\ handler.arg = activeBoxIdCount - 1


\* the live predicate of the box with mode id boxId: its flight mode flag,
\* its rc-mode-active flag or the armed flag
LivePredicate(boxId) ==
    LET is(name) == boxId = Box(name)
        mode(mask) == mask \in runtime.flightModeFlags
    IN  CASE is("BOXARM") -> runtime.armed
          [] is("BOXANGLE") -> mode("ANGLE_MODE")
          [] is("BOXHORIZON") -> mode("HORIZON_MODE")
          [] is("BOXHEADINGHOLD") -> mode("HEADING_MODE")
          [] is("BOXHEADFREE") -> mode("HEADFREE_MODE")
          [] is("BOXMANUAL") -> mode("MANUAL_MODE")
          [] is("BOXFAILSAFE") -> mode("FAILSAFE_MODE")
          [] is("BOXNAVALTHOLD") -> mode("NAV_ALTHOLD_MODE")
          [] is("BOXNAVPOSHOLD") -> mode("NAV_POSHOLD_MODE")
          [] is("BOXNAVCOURSEHOLD") -> mode("NAV_COURSE_HOLD_MODE")
          [] is("BOXNAVCRUISE") -> mode("NAV_COURSE_HOLD_MODE") /\ mode("NAV_ALTHOLD_MODE")
          [] is("BOXNAVRTH") -> mode("NAV_RTH_MODE")
          [] is("BOXNAVWP") -> mode("NAV_WP_MODE")
          [] is("BOXFLAPERON") -> target.USE_FLM_FLAPERON /\ mode("FLAPERON")
          [] is("BOXTURNASSIST") -> mode("TURN_ASSISTANT")
          [] is("BOXNAVLAUNCH") -> mode("NAV_LAUNCH_MODE")
          [] is("BOXAUTOTUNE") -> mode("AUTO_TUNE")
          [] is("BOXSURFACE") -> runtime.terrainFollowing
          [] OTHER -> boxId \in runtime.rcModeActive

\* the permanent id of the real box with mode id boxId
PermanentIdOf(boxId) == RealBoxOf[boxId].permanentId

\* C13: the three replies are aligned on the list initActiveBoxIds built: a
\* completed serializeBoxReply has written activeBoxIdCount bytes, the i-th
\* the permanent id of activeBoxIds[i]; a serializeBoxNamesReply that returned
\* true has written activeBoxIdCount names, the i-th the name of
\* activeBoxIds[i]; packBoxModeFlags sets bit i only for the live predicate of
\* activeBoxIds[i] and no bit beyond the list; no entry is skipped.
C13_RepliesAlignedWithList ==
    /\ (Returned("serializeBoxReply") /\ JustDone("serializeBoxReply")) =>
          LET written == dst.data \o dst.past
          IN  /\ Len(written) = activeBoxIdCount
              /\ \A i \in BoxIds :
                   i < activeBoxIdCount => written[i + 1] = PermanentIdOf(activeBoxIds[i])
    /\ (Returned("serializeBoxNamesReply") /\ LookupResult = TRUE) =>
          /\ Len(dst.data) = 2 * activeBoxIdCount
          /\ \A i \in BoxIds :
               i < activeBoxIdCount =>
                   /\ dst.data[2 * i + 1] = NameOf(activeBoxIds[i])
                   /\ dst.data[2 * i + 2] = ";"
    /\ Returned("packBoxModeFlags") =>
          \A i \in mspBoxModeFlags :
              i < activeBoxIdCount /\ LivePredicate(activeBoxIds[i])

\* the flags have been packed on a built list while exactly one box is live,
\* at a position different from its mode id
C13_Witness ==
    /\ Returned("packBoxModeFlags")
    /\ activeBoxIdCount > 0
    /\ \E i \in mspBoxModeFlags : activeBoxIds[i] # i
    /\ Cardinality(mspBoxModeFlags) = 1

\* C14: packBoxModeFlags sets bit i if and only if the live predicate of the
\* box activeBoxIds[i] is true, for every box of the list, PREARM and TURTLE
\* included, and every bit at a position >= activeBoxIdCount is 0.
C14_BitIffLivePredicate ==
    Returned("packBoxModeFlags") =>
        \A i \in BoxIds :
            i \in mspBoxModeFlags <=>
                (i < activeBoxIdCount /\ LivePredicate(activeBoxIds[i]))

\* what the build does: the boxes packBoxModeFlags has no CHECK_ACTIVE_BOX
\* for never have their bit set
C14_UncheckedBoxesStayClear ==
    Returned("packBoxModeFlags") =>
        \A i \in BoxIds :
            i \in mspBoxModeFlags <=>
                /\ i < activeBoxIdCount
                /\ LivePredicate(activeBoxIds[i])
                /\ activeBoxIds[i] \notin {Box("BOXPREARM"), Box("BOXTURTLE")}

\* the flags have been packed while the PREARM rc mode is active
C14_Witness ==
    /\ Returned("packBoxModeFlags")
    /\ activeBoxIdCount > 0
    /\ Box("BOXPREARM") \in runtime.rcModeActive


\* the positions of the filled part of the active-box list
ActivePositions == { i \in BoxIds : i < activeBoxIdCount }

\* the boxes named by the ADD_ACTIVE_BOX statements of initActiveBoxIds, in
\* the order of the statements (the same on every target and in every context)
MasterSequence ==
    LET statements == initActiveBoxIds_statements(FullTarget, BareMultirotor)
    IN  [ k \in DOMAIN statements |-> Box(statements[k][2]) ]

\* C22: in every context, contradictory ones included (MULTIROTOR and
\* AIRPLANE both set), the list initActiveBoxIds builds holds no mode id
\* twice and activeBoxIdCount does not exceed CHECKBOX_ITEM_COUNT: every
\* stored id is a mode id, no statement names a box another one names, and
\* there are no more statements than entries of activeBoxIds.
C22_NoBoxTwiceNoOverflow ==
    Returned("initActiveBoxIds") =>
        /\ activeBoxIdCount <= CHECKBOX_ITEM_COUNT
        /\ \A i \in ActivePositions : activeBoxIds[i] \in BoxIds
        /\ \A i, j \in ActivePositions : activeBoxIds[i] = activeBoxIds[j] => i = j
        /\ Len(MasterSequence) <= CHECKBOX_ITEM_COUNT
        /\ \A k, m \in DOMAIN MasterSequence :
             MasterSequence[k] = MasterSequence[m] => k = m

\* the list has been built while MULTIROTOR and AIRPLANE are both set
C22_Witness ==
    /\ Returned("initActiveBoxIds")
    /\ {"MULTIROTOR", "AIRPLANE"} \subseteq context.stateFlags
    /\ "SENSOR_ACC" \in context.sensors

\* the place of mode id boxId in the master sequence
MasterPosition(boxId) == CHOOSE k \in DOMAIN MasterSequence : MasterSequence[k] = boxId

\* C23: the active-box list has one fixed order in all contexts: ARM is at
\* position 0 and PREARM at position 1, and the list is a subsequence of one
\* master sequence, so two boxes present in two lists keep their relative
\* order; the list a rebuild replaces (handler.arg) obeys the same order.
C23_ListFollowsMasterSequence ==
    Returned("initActiveBoxIds") =>
        /\ activeBoxIdCount >= 2
        /\ activeBoxIds[0] = Box("BOXARM")
        /\ activeBoxIds[1] = Box("BOXPREARM")
        /\ \A i, j \in ActivePositions :
             i < j => MasterPosition(activeBoxIds[i]) < MasterPosition(activeBoxIds[j])
        /\ \A i, j \in ActivePositions :
             (/\ i < handler.arg.activeBoxIdCount
              /\ j < handler.arg.activeBoxIdCount
              /\ i < j)
             => MasterPosition(handler.arg.activeBoxIds[i])
                  < MasterPosition(handler.arg.activeBoxIds[j])

\* a rebuild after a change of context has inserted or removed entries: the
\* new list differs from the one it replaces and both share boxes beyond ARM
\* and PREARM
C23_Witness ==
    /\ Returned("initActiveBoxIds")
    /\ edits > 0
    /\ handler.arg.activeBoxIdCount > 2
    /\ handler.arg.activeBoxIdCount # activeBoxIdCount
    /\ activeBoxIdCount > 2

PositionBoxes ==
    { Box(n) : n \in {"BOXNAVRTH", "BOXNAVWP", "BOXHOMERESET", "BOXGCSNAV",
                      "BOXPLANWPMISSION"} }

\* an altitude source is ready: the barometer, or GPS on an airplane or with
\* use_gps_no_baro
AltitudeSourceReady ==
    \/ "SENSOR_BARO" \in context.sensors
    \/ /\ "FEATURE_GPS" \in context.features
       /\ ("AIRPLANE" \in context.stateFlags \/ context.use_gps_no_baro)

\* C24: NAV RTH, NAV WP, HOME RESET, GCS NAV and WP PLANNER are in the list
\* only if the accelerometer is present and the GPS feature is enabled, on a
\* multirotor only if a compass is detected, and, when altitude control
\* applies, an altitude source is ready; NAV ALTHOLD is in the list only if
\* altitude control applies and an altitude source is ready.
C24_NavigationBoxesNeedPrerequisites ==
    Returned("initActiveBoxIds") =>
        /\ (PositionBoxes \cap ActiveBoxSet # {}) =>
             /\ "SENSOR_ACC" \in context.sensors
             /\ "FEATURE_GPS" \in context.features
             /\ ("MULTIROTOR" \in context.stateFlags
                   => context.hwCompassStatus # "HW_SENSOR_NONE")
             /\ ("ALTITUDE_CONTROL" \in context.stateFlags => AltitudeSourceReady)
        /\ (Box("BOXNAVALTHOLD") \in ActiveBoxSet) =>
             /\ "ALTITUDE_CONTROL" \in context.stateFlags
             /\ AltitudeSourceReady

\* the list of a multirotor has been built with NAV RTH and NAV ALTHOLD in it
C24_Witness ==
    /\ Returned("initActiveBoxIds")
    /\ "MULTIROTOR" \in context.stateFlags
    /\ PositionBoxes \subseteq ActiveBoxSet
    /\ Box("BOXNAVALTHOLD") \in ActiveBoxSet


\* C25: validateNavConfig corrects a threshold violation only by lowering
\* the lower threshold: the upper threshold is unchanged and the lower
\* threshold after the pass is at most the lower threshold before it, an
\* upper threshold below the 100-unit margin included.
C25_OnlyLowersLowerThreshold ==
    JustDone("validateAndFixConfig") =>
        /\ cfg.land_slowdown_maxalt = before.land_slowdown_maxalt
        /\ cfg.land_slowdown_minalt <= before.land_slowdown_minalt

\* the upper threshold is never changed, and with an upper threshold of at
\* least the margin the lower threshold is only lowered
C25_LoweredAboveMargin ==
    JustDone("validateAndFixConfig") =>
        /\ cfg.land_slowdown_maxalt = before.land_slowdown_maxalt
        /\ before.land_slowdown_maxalt >= LAND_SLOWDOWN_MARGIN =>
             cfg.land_slowdown_minalt <= before.land_slowdown_minalt


\* the motor output protocols that are legal in build b
LegalMotorProtocols(b) ==
    IF b.USE_DSHOT THEN KnownProtocols ELSE PWM_TYPE_STANDARD .. PWM_TYPE_BRUSHED

\* the servo protocols that are legal in build b
LegalServoProtocols(b) ==
    IF b.USE_SERVO_SBUS
    THEN {"SERVO_TYPE_PWM", "SERVO_TYPE_SBUS", "SERVO_TYPE_SBUS_PWM"}
    ELSE {"SERVO_TYPE_PWM"}

\* C26: after validateAndFixConfig every stored protocol is legal for the
\* build: a motor protocol outside the legal range (DSHOT-class or unknown
\* without USE_DSHOT, above the last known protocol with USE_DSHOT) has been
\* replaced, an SBUS-class servo protocol without USE_SERVO_SBUS has become
\* PWM, and legal values are unchanged.
C26_ProtocolsLegalAfterValidate ==
    JustDone("validateAndFixConfig") =>
        /\ cfg.motorPwmProtocol \in LegalMotorProtocols(build)
        /\ cfg.servo_protocol \in LegalServoProtocols(build)
        /\ before.motorPwmProtocol \in LegalMotorProtocols(build) =>
             cfg.motorPwmProtocol = before.motorPwmProtocol
        /\ before.servo_protocol \in LegalServoProtocols(build) =>
             cfg.servo_protocol = before.servo_protocol

\* the part that holds: the servo protocol on every build, the motor
\* protocol on builds without USE_DSHOT, and legal values left unchanged
C26_ProtocolsLegalWithoutDshot ==
    JustDone("validateAndFixConfig") =>
        /\ ~build.USE_DSHOT => cfg.motorPwmProtocol \in LegalMotorProtocols(build)
        /\ (~build.USE_DSHOT /\ before.motorPwmProtocol > PWM_TYPE_BRUSHED) =>
             cfg.motorPwmProtocol = PWM_TYPE_MULTISHOT
        /\ cfg.servo_protocol \in LegalServoProtocols(build)
        /\ before.motorPwmProtocol \in LegalMotorProtocols(build) =>
             cfg.motorPwmProtocol = before.motorPwmProtocol
        /\ before.servo_protocol \in LegalServoProtocols(build) =>
             cfg.servo_protocol = before.servo_protocol


\* the calls of the profile-switch and calibration-save sequences that
\* change the shared configuration
MutatingOps ==
    {"setConfigProfile", "setConfigBatteryProfile",
     "gyro_zero_cal_X", "gyro_zero_cal_Y", "gyro_zero_cal_Z"}

\* the profile-switch and calibration-save sequences
SwitchAndSaveSequences ==
    {"setConfigProfileAndWriteEEPROM", "setConfigBatteryProfileAndWriteEEPROM",
     "setGyroCalibrationAndWriteEEPROM"}

\* a mutation of such a sequence is about to be made or has just been made
AtMutation ==
    /\ handler.fn \in SwitchAndSaveSequences
    /\ \/ pc # <<>> /\ Head(pc).op \in MutatingOps
       \/ \E o \in MutatingOps : JustDone(o)

\* C21: every mutation of shared configuration made by a profile-switch or
\* calibration-save sequence (the active profile and stored index in
\* setConfigProfile / setConfigBatteryProfile, the gyro calibration values
\* in setGyroCalibrationAndWriteEEPROM) happens while rx signal intake is
\* suspended.
C21_MutationsWhileSuspended == AtMutation => rxSuspended

\* what the code does: the mutations the sequence makes itself come before
\* its first suspendRxSignal and are made with intake active; only the ones
\* readEEPROM repeats are made with intake suspended
C21_MutationsBeforeSuspension ==
    AtMutation => (rxSuspended <=> "suspendRxSignal" \in { log[i].op : i \in DOMAIN log })

\* a new profile index is in RAM with intake active and not yet written
C21_NewIndexVisible ==
    /\ handler.fn = "setConfigProfileAndWriteEEPROM"
    /\ JustDone("setConfigProfile")
    /\ ~rxSuspended
    /\ systemConfig.current_profile_index # image.systemConfig.current_profile_index
====
